---- MODULE Spec2Model ----
(***************************************************************************)
(* Car telemetry simulator: the in-memory telemetry repository             *)
(* (InMemoryTelemetryRepo), the alert engine (evaluateAlerts, in            *)
(* lib/alerts/alert-engine.ts, with the seeded generator mulberry32) and    *)
(* the simulation Engine with the telemetry store that feeds the alert      *)
(* engine (lib/persistence/subscriber.ts), and the history route GET        *)
(* (app/api/history/route.ts) over the repository.                          *)
(*                                                                         *)
(* Numbers.  Timestamps are integer milliseconds and rpm is an integer.    *)
(* Every other numeric sample field is held in hundredths of its unit      *)
(* (speedKph 12050 is 120.5 km/h), the resolution round2 gives a sample.   *)
(***************************************************************************)
EXTENDS Integers, Sequences, FiniteSets, TLC

VARIABLES
    buffer,     \* InMemoryTelemetryRepo.buffer
    added,      \* number of add() calls made so far
    lastAdd,    \* what the latest add() did, or the latest query() or GET: its request and response
    walk,       \* a client's pagination walk over query()
    alertState, \* the store's alertsActive, alertsHistory, alertRuntimes
    lastCritical, \* newlyCritical of the latest evaluateAlerts call
    upserts,    \* the upsertActive calls of the latest evaluateAlerts call
    prior,      \* the state passed to the latest call: as it read before, and after; per rule, the calls of its alert's current active period that had it in newlyCritical
    lastSample, \* the sample of the latest evaluateAlerts call
    held,       \* per duration rule: timestamp of the first sample of the current unbroken run of samples on which its condition held
    evals,      \* number of evaluateAlerts calls made so far
    stream,     \* which sample fields vary in this behaviour's stream
    engines,    \* per run: one Engine instance, its generator, its timers, its clock and what it emitted
    generators, \* the generators made by mulberry32(seed) on their own: seed, state and values returned
    routes,     \* per streaming route taken alone: its clients, its flags and the engine as it drives it
    store       \* the telemetry store (useTelemetryStore)

repoVars == <<buffer, added, lastAdd, walk>>

appVars == <<routes, store>>

engineVars == <<engines, generators, appVars>>

alertVars == <<alertState, lastCritical, upserts, prior, lastSample, held, evals, stream>>

vars == <<buffer, added, lastAdd, walk,
          alertState, lastCritical, upserts, prior, lastSample, held, evals, stream,
          engines, generators, routes, store>>

Absent == 0 - 999999   \* undefined / an omitted number
NaN == 0 - 888888      \* the number NaN
NoCursor == << >>      \* an omitted cursor; the code treats the empty string alike

Min(a, b) == IF a < b THEN a ELSE b

Max(a, b) == IF a > b THEN a ELSE b

\* F(v) with v evaluated once, before F is applied to it
Bind(v, F(_)) == CHOOSE r \in {F(x) : x \in {v}} : TRUE

----------------------------------------------------------------------------
(* Bounds of the model *)

MaxAdds == 4        \* add() calls in one behaviour
HARD_CAP == 3       \* the repository's count cap (25_000 in the source), scaled down so that it is reached
MaxPages == 4       \* query() calls in one pagination walk
MaxEvals == 4       \* evaluateAlerts calls in one behaviour
MaxTicks == 3       \* ticks of one engine run in one behaviour
MaxStarts == 1      \* start() calls from outside that take effect, per engine, in one behaviour
MaxRestarts == 1    \* start() calls of a listener that take effect, per engine, in one behaviour
HISTORY_CAP == 3    \* the alert history's cap (300 in the source), scaled down so that it is reached
MaxDraws == 3       \* calls of one generator made on its own in one behaviour
DEFAULT_CAPACITY == 2   \* the telemetry store's ring buffer capacity (2000 in the source), scaled down so that it is reached
MaxStoreOps == 5    \* operations on the telemetry store in one behaviour

(* Program constants *)

LIMIT_MIN == 1
LIMIT_MAX == 500
LIMIT_DEFAULT == 200
MAX_RPM == 7000

RetentionMs == 1000     \* constructor argument retentionMs

----------------------------------------------------------------------------
(* TelemetrySample and its schema *)

BaseSample ==
    [timestamp |-> 0, vehicleId |-> "vehicle-001", speedKph |-> 0, rpm |-> 1200,
     gear |-> 1, throttlePct |-> 1000, brakePct |-> 0, steeringDeg |-> 0,
     coolantC |-> 7000, oilC |-> 7500, batteryV |-> 1300, stateOfCharge |-> 9500,
     tireTemps |-> [FL |-> 5500, FR |-> 5500, RL |-> 5000, RR |-> 5000],
     latitude |-> 3777, longitude |-> -12241, lap |-> 0, sector |-> 0]

TelemetrySampleSchema(s) ==
    /\ s.speedKph >= 0
    /\ s.rpm >= 0
    /\ s.gear >= 0
    /\ s.throttlePct >= 0 /\ s.throttlePct <= 10000
    /\ s.brakePct >= 0 /\ s.brakePct <= 10000
    /\ s.steeringDeg >= -18000 /\ s.steeringDeg <= 18000
    /\ s.batteryV > 0
    /\ s.stateOfCharge >= 0 /\ s.stateOfCharge <= 10000
    /\ s.latitude >= -9000 /\ s.latitude <= 9000
    /\ s.longitude >= -18000 /\ s.longitude <= 18000
    /\ s.lap >= 0
    /\ s.sector >= 0

----------------------------------------------------------------------------
(* Strings are sequences of character codes; a cursor is a base64 string,  *)
(* held as its sequence of alphabet indices 0..63, with 64 for '='.        *)

RECURSIVE Digits(_)
Digits(n) == IF n < 10 THEN <<48 + n>> ELSE Append(Digits(n \div 10), 48 + (n % 10))

\* String(n) for an integer n
NumToString(n) == IF n < 0 THEN <<45>> \o Digits(-n) ELSE Digits(n)

RECURSIVE ParseDigits(_, _, _)
ParseDigits(s, i, acc) ==
    IF i > Len(s) \/ s[i] < 48 \/ s[i] > 57 THEN acc
    ELSE ParseDigits(s, i + 1, acc * 10 + (s[i] - 48))

\* parseInt(s, 10): NaN when no digit follows the optional sign
ParseInt(s) ==
    LET neg == Len(s) >= 1 /\ s[1] = 45
        first == IF Len(s) >= 1 /\ s[1] \in {43, 45} THEN 2 ELSE 1
    IN  IF first > Len(s) \/ s[first] < 48 \/ s[first] > 57 THEN NaN
        ELSE IF neg THEN 0 - ParseDigits(s, first, 0) ELSE ParseDigits(s, first, 0)

\* Buffer.from(bytes).toString('base64')
RECURSIVE Base64Encode(_)
Base64Encode(b) ==
    IF Len(b) = 0 THEN << >>
    ELSE IF Len(b) = 1 THEN <<b[1] \div 4, (b[1] % 4) * 16, 64, 64>>
    ELSE IF Len(b) = 2 THEN
        <<b[1] \div 4, (b[1] % 4) * 16 + b[2] \div 16, (b[2] % 16) * 4, 64>>
    ELSE <<b[1] \div 4, (b[1] % 4) * 16 + b[2] \div 16,
           (b[2] % 16) * 4 + b[3] \div 64, b[3] % 64>>
         \o Base64Encode(SubSeq(b, 4, Len(b)))

\* Buffer.from(text, 'base64'): decoding stops at the padding
RECURSIVE Base64Decode(_)
Base64Decode(c) ==
    IF Len(c) < 2 \/ c[1] = 64 \/ c[2] = 64 THEN << >>
    ELSE LET b1 == c[1] * 4 + c[2] \div 16
         IN  IF Len(c) < 3 \/ c[3] = 64 THEN <<b1>>
             ELSE LET b2 == (c[2] % 16) * 16 + c[3] \div 4
                  IN  IF Len(c) < 4 \/ c[4] = 64 THEN <<b1, b2>>
                      ELSE <<b1, b2, (c[3] % 4) * 64 + c[4]>>
                           \o Base64Decode(SubSeq(c, 5, Len(c)))

\* mutant: the cursor encodes the offset of the page just returned plus one too many
EncodeCursor_OffByOne(nextIndex) == Base64Encode(NumToString(nextIndex + 1))

EncodeCursor(nextIndex) == Base64Encode(NumToString(nextIndex))

\* parseInt(Buffer.from(cursor, 'base64').toString('utf8'), 10) || 0
DecodeCursor(cursor) ==
    LET n == ParseInt(Base64Decode(cursor))
    IN  IF n = NaN THEN 0 ELSE n

----------------------------------------------------------------------------
(* InMemoryTelemetryRepo *)

\* Array.prototype.slice(start, end) on a sequence (0-based, negative from the end)
Slice(s, start, end) ==
    LET n == Len(s)
        a == IF start < 0 THEN Max(n + start, 0) ELSE Min(start, n)
        b == IF end < 0 THEN Max(n + end, 0) ELSE Min(end, n)
    IN  IF a >= b THEN << >> ELSE SubSeq(s, a + 1, b)

\* mutant: the upper bound is inclusive
FilterSeq_ToInclusive(s, from, to) ==
    SelectSeq(s, LAMBDA h : /\ (from = Absent \/ h.timestamp >= from)
                            /\ (to = Absent \/ h.timestamp <= to))

RECURSIVE FilterSeq(_, _, _)
FilterSeq(s, from, to) ==
    IF s = << >> THEN << >>
    ELSE LET h == Head(s)
             keep == /\ (from = Absent \/ h.timestamp >= from)
                     /\ (to = Absent \/ h.timestamp < to)
         IN  (IF keep THEN <<h>> ELSE << >>) \o FilterSeq(Tail(s), from, to)

RECURSIVE FirstIdx(_, _, _)
FirstIdx(buf, cutoff, firstIdx) ==
    IF firstIdx < Len(buf) /\ buf[firstIdx + 1].timestamp < cutoff
    THEN FirstIdx(buf, cutoff, firstIdx + 1)
    ELSE firstIdx

evictOld(buf, nowTs) ==
    LET cutoff == nowTs - RetentionMs
        firstIdx == FirstIdx(buf, cutoff, 0)
    IN  IF firstIdx > 0 THEN SubSeq(buf, firstIdx + 1, Len(buf)) ELSE buf

\* mutant: the hard cap is not enforced
CapTruncate_NoCap(buf) == buf

CapTruncate(buf) ==
    IF Len(buf) > HARD_CAP
    THEN LET excess == Len(buf) - HARD_CAP IN SubSeq(buf, excess + 1, Len(buf))
    ELSE buf

\* mutant: the sample is stored without the validation
add_NoValidation(buf, sample) ==
    evictOld(CapTruncate(Append(buf, sample)), sample.timestamp)

add(buf, sample) ==
    IF ~TelemetrySampleSchema(sample) THEN buf
    ELSE evictOld(CapTruncate(Append(buf, sample)), sample.timestamp)

size(buf) == Len(buf)

QUERY_SCHEMA(raw) ==
    raw.limit = Absent \/ (raw.limit >= LIMIT_MIN /\ raw.limit <= LIMIT_MAX)

\* mutant: a full last page still announces a next one
query_HasMoreInclusive(buf, raw) ==
    IF ~QUERY_SCHEMA(raw)
    THEN [samples |-> << >>, nextCursor |-> NoCursor, totalAvailable |-> Len(buf)]
    ELSE LET limit == IF raw.limit = Absent THEN LIMIT_DEFAULT ELSE raw.limit
             startIndex == IF raw.cursor # NoCursor
                           THEN DecodeCursor(raw.cursor) ELSE 0
             candidates == FilterSeq(buf, raw.from, raw.to)
             slice == Slice(candidates, startIndex, startIndex + limit)
             nextIndex == startIndex + Len(slice)
             hasMore == nextIndex <= Len(candidates) /\ Len(slice) > 0
         IN  [samples |-> slice,
              nextCursor |-> IF hasMore THEN EncodeCursor(nextIndex) ELSE NoCursor,
              totalAvailable |-> Len(candidates)]

query(buf, raw) ==
    IF ~QUERY_SCHEMA(raw)
    THEN [samples |-> << >>, nextCursor |-> NoCursor, totalAvailable |-> Len(buf)]
    ELSE LET limit == IF raw.limit = Absent THEN LIMIT_DEFAULT ELSE raw.limit
             startIndex == IF raw.cursor # NoCursor
                           THEN DecodeCursor(raw.cursor) ELSE 0
             candidates == FilterSeq(buf, raw.from, raw.to)
             slice == Slice(candidates, startIndex, startIndex + limit)
             nextIndex == startIndex + Len(slice)
             hasMore == nextIndex < Len(candidates)
         IN  [samples |-> slice,
              nextCursor |-> IF hasMore THEN EncodeCursor(nextIndex) ELSE NoCursor,
              totalAvailable |-> Len(candidates)]

----------------------------------------------------------------------------
(* GET /api/history.  Query parameters are strings (sequences of character  *)
(* codes), NoParam when the URL does not carry them.                        *)

\* what stands for a string that is undefined: no character has this code
NoParam == <<0 - 1>>

\* +v for a string made of an optional sign and decimal digits, or of other
\* characters than digits, '.', 'e', 'x' and white space: 0 for the empty string,
\* the number when all of it is one, NaN otherwise
ToNumber(v) ==
    IF Len(v) = 0 THEN 0
    ELSE LET first == IF v[1] \in {43, 45} THEN 2 ELSE 1
         IN  IF first > Len(v) \/ \E i \in first..Len(v) : v[i] < 48 \/ v[i] > 57 THEN NaN
             ELSE IF v[1] = 45 THEN 0 - ParseDigits(v, first, 0)
             ELSE ParseDigits(v, first, 0)

\* v === undefined ? undefined : (Number.isFinite(+v) ? +v : undefined)
coerceNumber(v) ==
    IF v = NoParam THEN Absent
    ELSE IF ToNumber(v) # NaN THEN ToNumber(v) ELSE Absent

NormalizedSchema(n) ==
    n.limit = Absent \/ (n.limit >= LIMIT_MIN /\ n.limit <= LIMIT_MAX)

\* The response of GET to the parameters params: its status and its JSON body
GET(buf, params) ==
    LET normObj == [from |-> coerceNumber(params.from), to |-> coerceNumber(params.to),
                    limit |-> coerceNumber(params.limit), cursor |-> params.cursor]
    IN  IF ~NormalizedSchema(normObj)
        THEN [status |-> 400, body |-> [error |-> "Invalid normalized parameters"]]
        ELSE LET data == [normObj EXCEPT !.limit = IF normObj.limit = Absent
                                                   THEN LIMIT_DEFAULT ELSE normObj.limit]
                 res == query(buf, data)
             IN  [status |-> 200,
                  body |-> [samples |-> res.samples, count |-> Len(res.samples),
                            nextCursor |-> res.nextCursor,
                            totalAvailable |-> res.totalAvailable, query |-> data]]

----------------------------------------------------------------------------
(* Alert engine.  Alert objects and rule-runtime objects are JavaScript     *)
(* objects: evaluateAlerts copies the three containers of the prior state   *)
(* ({...prev.active}, [...prev.history], {...prev.runtimes}) but not the     *)
(* objects in them.  An evaluation context therefore carries, beside the    *)
(* containers being built, the prior state's containers as they read        *)
(* through those shared objects (pActive, pRuntimes) and the ids whose      *)
(* object is still the prior state's (sharedA, sharedR).                    *)

RuleIds == {"high-rpm", "coolant-temp", "tire-delta", "battery-soc", "brake-throttle-overlap"}

Undefined == "undefined"    \* an unset AlertSeverity

EmptyMap == [x \in {} |-> x]

EmptyRt == [conditionActiveSince |-> Absent, lastSeverity |-> Undefined]

initialAlertEngineState == [active |-> EmptyMap, history |-> << >>, runtimes |-> EmptyMap]

\* n.toFixed(k) of a non-negative number held in hundredths, as the integer
\* count of the last digit shown: ToFixed(v, 100) is v.toFixed(0)
ToFixed(v, unit) == (v + unit \div 2) \div unit

createAlert(partial, now) ==
    [id |-> partial.id, vehicleId |-> partial.vehicleId, ruleId |-> partial.ruleId,
     severity |-> partial.severity, message |-> partial.message,
     firstSeen |-> now, lastSeen |-> now, active |-> partial.active]

\* mutant: the copy is not marked inactive
deactivateAlert_StillActive(alert, now) == [alert EXCEPT !.lastSeen = now]

deactivateAlert(alert, now) == [alert EXCEPT !.active = FALSE, !.lastSeen = now]

\* mutant: every upsert reports a severity change
upsertActive_AlwaysChanged(ctx, id, severity, message, sample, now) ==
    IF id \in DOMAIN ctx.active
    THEN LET existing == ctx.active[id]
             updated == [existing EXCEPT !.severity = severity, !.message = message,
                                         !.lastSeen = sample.timestamp, !.active = TRUE]
         IN  [ctx |-> [ctx EXCEPT !.active = (id :> updated) @@ ctx.active,
                                  !.pActive = IF id \in ctx.sharedA
                                              THEN (id :> updated) @@ ctx.pActive
                                              ELSE ctx.pActive],
              changed |-> TRUE]
    ELSE LET created == createAlert([id |-> id, vehicleId |-> sample.vehicleId, ruleId |-> id,
                                     severity |-> severity, message |-> message,
                                     active |-> TRUE], now)
             alert == [created EXCEPT !.firstSeen = sample.timestamp,
                                      !.lastSeen = sample.timestamp]
         IN  [ctx |-> [ctx EXCEPT !.active = (id :> alert) @@ ctx.active,
                                  !.sharedA = ctx.sharedA \ {id}],
              changed |-> TRUE]

\* mutant: a new alert keeps the stamps createAlert gave it
upsertActive_KeepsCreationStamps(ctx, id, severity, message, sample, now) ==
    IF id \in DOMAIN ctx.active
    THEN LET existing == ctx.active[id]
             updated == [existing EXCEPT !.severity = severity, !.message = message,
                                         !.lastSeen = sample.timestamp, !.active = TRUE]
         IN  [ctx |-> [ctx EXCEPT !.active = (id :> updated) @@ ctx.active,
                                  !.pActive = IF id \in ctx.sharedA
                                              THEN (id :> updated) @@ ctx.pActive
                                              ELSE ctx.pActive],
              changed |-> existing.severity # severity]
    ELSE LET created == createAlert([id |-> id, vehicleId |-> sample.vehicleId, ruleId |-> id,
                                     severity |-> severity, message |-> message,
                                     active |-> TRUE], now)
         IN  [ctx |-> [ctx EXCEPT !.active = (id :> created) @@ ctx.active,
                                  !.sharedA = ctx.sharedA \ {id}],
              changed |-> TRUE]

upsertActive(ctx, id, severity, message, sample, now) ==
    IF id \in DOMAIN ctx.active
    THEN LET existing == ctx.active[id]
             changed == existing.severity # severity
             \* the existing object is written in place
             updated == [existing EXCEPT !.severity = severity, !.message = message,
                                         !.lastSeen = sample.timestamp, !.active = TRUE]
         IN  [ctx |-> [ctx EXCEPT !.active = (id :> updated) @@ ctx.active,
                                  !.pActive = IF id \in ctx.sharedA
                                              THEN (id :> updated) @@ ctx.pActive
                                              ELSE ctx.pActive],
              changed |-> changed]
    ELSE LET created == createAlert([id |-> id, vehicleId |-> sample.vehicleId, ruleId |-> id,
                                     severity |-> severity, message |-> message,
                                     active |-> TRUE], now)
             alert == [created EXCEPT !.firstSeen = sample.timestamp,
                                      !.lastSeen = sample.timestamp]
         IN  [ctx |-> [ctx EXCEPT !.active = (id :> alert) @@ ctx.active,
                                  !.sharedA = ctx.sharedA \ {id}],
              changed |-> TRUE]

\* mutant: beyond the cap the newest entries are dropped
ShiftToCap_DropNewest(history) ==
    IF Len(history) > HISTORY_CAP THEN SubSeq(history, 1, HISTORY_CAP) ELSE history

RECURSIVE ShiftToCap(_)
ShiftToCap(history) == IF Len(history) > HISTORY_CAP THEN ShiftToCap(Tail(history)) ELSE history

Without(map, id) == [k \in DOMAIN map \ {id} |-> map[k]]

\* mutant: the deactivated copy goes to history but the alert stays in the active set
clearIfActive_NoDelete(ctx, id, now) ==
    IF id \in DOMAIN ctx.active /\ ctx.active[id].active
    THEN [ctx EXCEPT !.history = ShiftToCap(Append(ctx.history, deactivateAlert(ctx.active[id], now)))]
    ELSE ctx

clearIfActive(ctx, id, now) ==
    IF id \in DOMAIN ctx.active /\ ctx.active[id].active
    THEN LET deactivated == deactivateAlert(ctx.active[id], now)
         IN  [ctx EXCEPT !.history = ShiftToCap(Append(ctx.history, deactivated)),
                         !.active = Without(ctx.active, id),
                         !.sharedA = ctx.sharedA \ {id}]
    ELSE ctx

\* const rt = (runtimes[id] ||= {})
EnsureRuntime(ctx, id) ==
    IF id \in DOMAIN ctx.runtimes THEN ctx
    ELSE [ctx EXCEPT !.runtimes = (id :> EmptyRt) @@ ctx.runtimes,
                     !.sharedR = ctx.sharedR \ {id}]

\* a write to a field of rt, the object runtimes[id] refers to
WriteRuntime(ctx, id, rt) ==
    [ctx EXCEPT !.runtimes = (id :> rt) @@ ctx.runtimes,
                !.pRuntimes = IF id \in ctx.sharedR THEN (id :> rt) @@ ctx.pRuntimes
                              ELSE ctx.pRuntimes]

\* what a rule block does once upsertActive has returned
AfterUpsert(up, id, severity) ==
    LET c == up.ctx
        pushed == IF up.changed /\ severity = "critical"
                  THEN [c EXCEPT !.newlyCritical = Append(c.newlyCritical, id)] ELSE c
        logged == [pushed EXCEPT !.upserts = (id :> [severity |-> severity, changed |-> up.changed])
                                               @@ pushed.upserts]
    IN  WriteRuntime(logged, id, [logged.runtimes[id] EXCEPT !.lastSeverity = severity])

DurationSeverity(duration, warnMs, critMs) ==
    IF duration >= critMs THEN "critical"
    ELSE IF duration >= warnMs THEN "warning"
    ELSE Undefined

durationRule(ctx0, id, condition, warnMs, critMs, sample, now) ==
    LET ctx == EnsureRuntime(ctx0, id)
        rt == ctx.runtimes[id]
    IN  IF condition
        THEN LET \* !rt.conditionActiveSince is true of undefined and of 0
                 since == IF rt.conditionActiveSince = Absent \/ rt.conditionActiveSince = 0
                          THEN sample.timestamp ELSE rt.conditionActiveSince
                 timed == WriteRuntime(ctx, id, [rt EXCEPT !.conditionActiveSince = since])
                 duration == sample.timestamp - since
                 severity == DurationSeverity(duration, warnMs, critMs)
             IN  IF severity # Undefined
                 THEN AfterUpsert(upsertActive(timed, id, severity,
                                               <<id, ToFixed(duration, 100), severity>>,
                                               sample, now),
                                  id, severity)
                 ELSE timed
        ELSE clearIfActive(WriteRuntime(ctx, id, [rt EXCEPT !.conditionActiveSince = Absent]),
                           id, now)

HighRpmCondition(sample) == sample.rpm * 100 > 95 * MAX_RPM

OverlapCondition(sample) == sample.throttlePct > 2000 /\ sample.brakePct > 2000

CoolantSeverity(v) ==
    IF v > 12000 THEN "critical" ELSE IF v > 11000 THEN "warning" ELSE Undefined

\* mutant: the alert clears as soon as the value is back under the warning threshold
CoolantClears_NoHysteresis(rt, v) == rt.lastSeverity # Undefined /\ v <= 11000

CoolantClears(rt, v) == rt.lastSeverity # Undefined /\ v < 10500

coolantRule(ctx0, sample, now) ==
    LET id == "coolant-temp"
        v == sample.coolantC
        ctx == EnsureRuntime(ctx0, id)
        rt == ctx.runtimes[id]
        severity == CoolantSeverity(v)
    IN  IF severity # Undefined
        THEN AfterUpsert(upsertActive(ctx, id, severity, <<id, ToFixed(v, 100), severity>>,
                                      sample, now),
                         id, severity)
        ELSE IF CoolantClears(rt, v)
        THEN WriteRuntime(clearIfActive(ctx, id, now), id, [rt EXCEPT !.lastSeverity = Undefined])
        ELSE ctx

TireDelta(sample) ==
    LET temps == sample.tireTemps
        values == {temps.FL, temps.FR, temps.RL, temps.RR}
        max == CHOOSE x \in values : \A y \in values : y <= x
        min == CHOOSE x \in values : \A y \in values : y >= x
    IN  max - min

TireSeverity(delta) ==
    IF delta > 2000 THEN "critical" ELSE IF delta > 1500 THEN "warning" ELSE Undefined

TireClears(rt, delta) == rt.lastSeverity # Undefined /\ delta < 1200

tireRule(ctx0, sample, now) ==
    LET id == "tire-delta"
        delta == TireDelta(sample)
        severity == TireSeverity(delta)
        ctx == EnsureRuntime(ctx0, id)
        rt == ctx.runtimes[id]
    IN  IF severity # Undefined
        THEN AfterUpsert(upsertActive(ctx, id, severity, <<id, ToFixed(delta, 10), severity>>,
                                      sample, now),
                         id, severity)
        ELSE IF TireClears(rt, delta)
        THEN WriteRuntime(clearIfActive(ctx, id, now), id, [rt EXCEPT !.lastSeverity = Undefined])
        ELSE ctx

SocSeverity(soc) ==
    IF soc < 800 THEN "critical" ELSE IF soc < 1500 THEN "warning" ELSE Undefined

SocClears(rt, soc) ==
    \/ rt.lastSeverity = "critical" /\ soc > 1100
    \/ rt.lastSeverity = "warning" /\ soc > 1700

batteryRule(ctx0, sample, now) ==
    LET id == "battery-soc"
        soc == sample.stateOfCharge
        ctx == EnsureRuntime(ctx0, id)
        rt == ctx.runtimes[id]
        severity == SocSeverity(soc)
    IN  IF severity # Undefined
        THEN AfterUpsert(upsertActive(ctx, id, severity, <<id, ToFixed(soc, 10), severity>>,
                                      sample, now),
                         id, severity)
        ELSE IF rt.lastSeverity # Undefined /\ SocClears(rt, soc)
        THEN WriteRuntime(clearIfActive(ctx, id, now), id, [rt EXCEPT !.lastSeverity = Undefined])
        ELSE ctx

\* evaluateAlerts(sample, prev), called while the wall clock (Date.now()) reads now.
\* The result carries, beside the four fields the code returns, prevAfter: prev's
\* containers as they read after the call, and upserts: the severity each rule
\* passed to upsertActive in this call and the changed flag it got back.
evaluateAlerts(sample, prev, now) ==
    LET c0 == [active |-> prev.active, history |-> prev.history, runtimes |-> prev.runtimes,
               newlyCritical |-> << >>, upserts |-> EmptyMap,
               pActive |-> prev.active, pRuntimes |-> prev.runtimes,
               sharedA |-> DOMAIN prev.active, sharedR |-> DOMAIN prev.runtimes]
        c1 == durationRule(c0, "high-rpm", HighRpmCondition(sample), 5000, 8000, sample, now)
        c2 == coolantRule(c1, sample, now)
        c3 == tireRule(c2, sample, now)
        c4 == batteryRule(c3, sample, now)
        c5 == durationRule(c4, "brake-throttle-overlap", OverlapCondition(sample), 3000, 5000,
                           sample, now)
    IN  [active |-> c5.active, history |-> c5.history, runtimes |-> c5.runtimes,
         newlyCritical |-> [i \in 1..Len(c5.newlyCritical) |-> c5.active[c5.newlyCritical[i]]],
         upserts |-> c5.upserts,
         prevAfter |-> [active |-> c5.pActive, history |-> prev.history,
                        runtimes |-> c5.pRuntimes]]

----------------------------------------------------------------------------
(* Seeded generator (mulberry32).  A 32-bit word is the pair <<hi, lo>> of   *)
(* its 16-bit halves, so that no intermediate value leaves the range of the  *)
(* checker's integers.                                                       *)

W16 == 65536

\* x ^ y for two 4-bit digits, tabulated at 16 * x + y + 1
XorNibble ==
    <<
       0,  1,  2,  3,  4,  5,  6,  7,  8,  9, 10, 11, 12, 13, 14, 15,
       1,  0,  3,  2,  5,  4,  7,  6,  9,  8, 11, 10, 13, 12, 15, 14,
       2,  3,  0,  1,  6,  7,  4,  5, 10, 11,  8,  9, 14, 15, 12, 13,
       3,  2,  1,  0,  7,  6,  5,  4, 11, 10,  9,  8, 15, 14, 13, 12,
       4,  5,  6,  7,  0,  1,  2,  3, 12, 13, 14, 15,  8,  9, 10, 11,
       5,  4,  7,  6,  1,  0,  3,  2, 13, 12, 15, 14,  9,  8, 11, 10,
       6,  7,  4,  5,  2,  3,  0,  1, 14, 15, 12, 13, 10, 11,  8,  9,
       7,  6,  5,  4,  3,  2,  1,  0, 15, 14, 13, 12, 11, 10,  9,  8,
       8,  9, 10, 11, 12, 13, 14, 15,  0,  1,  2,  3,  4,  5,  6,  7,
       9,  8, 11, 10, 13, 12, 15, 14,  1,  0,  3,  2,  5,  4,  7,  6,
      10, 11,  8,  9, 14, 15, 12, 13,  2,  3,  0,  1,  6,  7,  4,  5,
      11, 10,  9,  8, 15, 14, 13, 12,  3,  2,  1,  0,  7,  6,  5,  4,
      12, 13, 14, 15,  8,  9, 10, 11,  4,  5,  6,  7,  0,  1,  2,  3,
      13, 12, 15, 14,  9,  8, 11, 10,  5,  4,  7,  6,  1,  0,  3,  2,
      14, 15, 12, 13, 10, 11,  8,  9,  6,  7,  4,  5,  2,  3,  0,  1,
      15, 14, 13, 12, 11, 10,  9,  8,  7,  6,  5,  4,  3,  2,  1,  0
    >>

\* x ^ y for two bytes
XorByte(x, y) ==
    16 * XorNibble[16 * (x \div 16) + (y \div 16) + 1] + XorNibble[16 * (x % 16) + (y % 16) + 1]

\* x ^ y for two 16-bit halves
Xor(x, y) == 256 * XorByte(x \div 256, y \div 256) + XorByte(x % 256, y % 256)

RECURSIVE Or(_, _)
Or(x, y) ==
    IF x = 0 THEN y ELSE IF y = 0 THEN x
    ELSE (IF x % 2 = 1 \/ y % 2 = 1 THEN 1 ELSE 0) + 2 * Or(x \div 2, y \div 2)

\* 2^k for 0 < k < 16
Pow2(k) == <<2, 4, 8, 16, 32, 64, 128, 256, 512, 1024, 2048, 4096, 8192, 16384, 32768>>[k]

Word(n) == <<(n \div W16) % W16, n % W16>>     \* seed >>> 0, for -2^31 < seed < 2^31

Xor32(a, b) == <<Xor(a[1], b[1]), Xor(a[2], b[2])>>

Or32(a, b) == <<Or(a[1], b[1]), Or(a[2], b[2])>>

\* a >>> k for 0 < k < 16
Shr32(a, k) == <<a[1] \div Pow2(k), (a[1] % Pow2(k)) * Pow2(16 - k) + a[2] \div Pow2(k)>>

\* (a + b) | 0
Add32(a, b) ==
    LET lo == a[2] + b[2]
    IN  <<(a[1] + b[1] + lo \div W16) % W16, lo % W16>>

\* the 32-bit product of two 16-bit halves
Mul16(x, y) ==
    LET p1 == x * (y \div 256)
        p0 == x * (y % 256)
        low == (p1 % 256) * 256 + p0
    IN  <<(p1 \div 256 + low \div W16) % W16, low % W16>>

\* Math.imul(a, b)
Imul(a, b) ==
    Bind(<<a, b>>, LAMBDA w :
        LET ll == Mul16(w[1][2], w[2][2])
        IN  <<(ll[1] + Mul16(w[1][1], w[2][2])[2] + Mul16(w[1][2], w[2][1])[2]) % W16, ll[2]>>)

\* mutant: the returned word is not made unsigned (no >>> 0 before the division)
mulberry32_Signed(a0) ==
    Bind(Add32(a0, <<27947, 31221>>), LAMBDA a :
    Bind(Imul(Xor32(a, Shr32(a, 15)), Or32(<<0, 1>>, a)), LAMBDA t1 :
    Bind(Imul(Xor32(t1, Shr32(t1, 7)), Or32(<<0, 61>>, t1)), LAMBDA m :
    Bind(Xor32(Xor32(Add32(t1, m), t1), Shr32(Xor32(Add32(t1, m), t1), 14)), LAMBDA v :
        [a |-> a, value |-> IF v[1] >= 32768 THEN <<v[1] - W16, v[2]>> ELSE v]))))

\* One call of the generator returned by mulberry32(seed), whose state is a: the
\* new state and the 32-bit word the call returns divided by 2^32
mulberry32(a0) ==
    Bind(Add32(a0, <<27947, 31221>>), LAMBDA a :                \* 0x6D2B79F5
    Bind(Imul(Xor32(a, Shr32(a, 15)), Or32(<<0, 1>>, a)), LAMBDA t1 :
    Bind(Imul(Xor32(t1, Shr32(t1, 7)), Or32(<<0, 61>>, t1)), LAMBDA m :
    Bind(Xor32(Add32(t1, m), t1), LAMBDA t2 :
        [a |-> a, value |-> Xor32(t2, Shr32(t2, 14))]))))

\* floor((span * h + carry) / 2^16) for a 16-bit h, without leaving the integers' range
MulFrac16(span, h, carry) ==
    ((span \div 256) * h + ((span % 256) * h + carry) \div 256) \div 256

\* floor(span * x) for the value x = v / 2^32 of a generator call, 0 <= span < 2^23
Frac(v, span) == MulFrac16(span, v[1], MulFrac16(span, v[2], 0))

\* range(rng, min, max) = min + (max - min) * rng(), in the unit of min and span = max - min
range(a, min, span) ==
    Bind(mulberry32(a), LAMBDA r : [a |-> r.a, value |-> min + Frac(r.value, span)])

\* the generator's state and the sum of the values after n more calls
RECURSIVE SumDraws(_, _, _, _)
SumDraws(a, n, hi, lo) ==
    IF n = 0 THEN [a |-> a, hi |-> hi, lo |-> lo]
    ELSE Bind(<<mulberry32(a), hi, lo>>, LAMBDA w :
            SumDraws(w[1].a, n - 1, w[2] + w[1].value[1], w[3] + w[1].value[2]))

\* normal(rng, mean, stdDev) = mean + (sum of 6 calls - 3) * stdDev, rounded down
normal(a, mean, stdDev) ==
    Bind(SumDraws(a, 6, 0, 0), LAMBDA s :
        LET zHi == s.hi + s.lo \div W16 - 3 * W16
            zLo == s.lo % W16
        IN  [a |-> s.a, value |-> mean + (zHi * stdDev + (zLo * stdDev) \div W16) \div W16])

\* chance(rng, probability): rng() < probability, with probability * 2^32 rounded up to the word p
chance(a, p) ==
    Bind(mulberry32(a), LAMBDA r :
        [a |-> r.a,
         value |-> r.value[1] < p[1] \/ (r.value[1] = p[1] /\ r.value[2] < p[2])])

P_BRAKE == <<1310, 47186>>      \* 0.02
P_ANOMALY == <<65, 35128>>      \* 0.001

----------------------------------------------------------------------------
(* Simulation engine.  InternalState in hundredths of the source's units,    *)
(* except rpm (hundredths of an rpm as well), stateOfCharge (in 1/100000 of  *)
(* a percent, since one tick drains less than a hundredth) and lap, gear,    *)
(* anomalyCooldown (integers).  Products are divided in stages so that they  *)
(* stay within the integers' range; every division rounds down.              *)

MAX_GEAR == 6
DOWNSHIFT_RPM == 1600
TRACK_LENGTH_M == 3000
SECTORS == 3
MIN_TICK_MS == 100
MAX_TICK_MS == 200
DEFAULT_MAX_RPM == 7000    \* DEFAULT_VEHICLE.maxRpm
DEFAULT_SEED == 1
SOC_UNIT == 1000    \* stateOfCharge units in one hundredth of a percent

GEAR_RATIOS == <<320, 210, 155, 115, 95, 82>>    \* gears 1..6

SHIFT_RPM_FACTOR_PCT == 94

clamp(v, min, max) == IF v < min THEN min ELSE IF v > max THEN max ELSE v

lerp(a, b, tPct) == a + ((b - a) * tPct) \div 100

approach(current, target, factorPct) == current + ((target - current) * factorPct) \div 100

\* Math.round(n * 100) / 100 of a value held in hundredths
round2(n) == n

\* Math.round(n * 10) / 10 of a value held in hundredths
round1(n) == ((n + 5) \div 10) * 10

\* Math.floor(range(rng, min, max + 0.999)) for integers min and max, the span in thousandths
intRange(a, min, max) ==
    Bind(range(a, 0, (max - min) * 1000 + 999), LAMBDA r :
        [a |-> r.a, value |-> min + r.value \div 1000])

\* in hundredths of an rpm, for a speed in hundredths of a km/h
speedToRpm(speedKph, gear, maxRpm) ==
    IF gear <= 0 THEN 90000
    ELSE LET ratio == GEAR_RATIOS[gear]
             \* speedKph * ratio, cut where the product with 55 is past either bound
             \* of the clamp below, so that it stays within the integers' range
             scaled == clamp(speedKph * ratio, -20000000, 20000000)
             rpm == (scaled * 55) \div 100
         IN  clamp(rpm, 90000, maxRpm * 105)

createInitialState(now) ==
    [running |-> FALSE, lastTs |-> now, timer |-> Absent, gear |-> 1, speedKph |-> 0,
     rpm |-> 120000, throttlePct |-> 1000, brakePct |-> 0, steeringDeg |-> 0,
     coolantC |-> 7000, oilC |-> 7500, batteryV |-> 1300, stateOfCharge |-> 95 * 100 * SOC_UNIT,
     tireTemps |-> [FL |-> 5500, FR |-> 5500, RL |-> 5000, RR |-> 5000],
     distanceM |-> 0, lap |-> 0, anomalyCooldown |-> 0]

\* (rate * dtMs) / per, the whole seconds of dtMs and its remainder taken apart
PerTick(rate, dtMs, per) ==
    (rate * (dtMs \div 1000) * 10) \div (per \div 100) + (rate * (dtMs % 1000)) \div per

\* accelFactor, accelMps2, deltaSpeedKph and the clamped new speed
SpeedStep(speedKph, throttlePct, brakePct, dtMs) ==
    LET \* (throttle / 100 - brake / 70) * 7 - 0.012 * speed, in hundredths of a m/s2
        accelMps2 == (70 * throttlePct - 100 * brakePct - 12 * speedKph) \div 1000
        \* accelMps2 * (dtMs / 1000) * 3.6
        deltaSpeedKph == PerTick(accelMps2 * 36, dtMs, 10000)
    IN  clamp(speedKph + deltaSpeedKph, 0, 32000)

\* mutant: the downshift is not held at the first gear
GearShift_NoLowGearGuard(gear, targetRpmFromSpeed, maxRpm) ==
    IF targetRpmFromSpeed > maxRpm * SHIFT_RPM_FACTOR_PCT /\ gear < MAX_GEAR THEN gear + 1
    ELSE IF targetRpmFromSpeed < DOWNSHIFT_RPM * 100 THEN gear - 1
    ELSE gear

GearShift(gear, targetRpmFromSpeed, maxRpm) ==
    IF targetRpmFromSpeed > maxRpm * SHIFT_RPM_FACTOR_PCT /\ gear < MAX_GEAR THEN gear + 1
    ELSE IF targetRpmFromSpeed < DOWNSHIFT_RPM * 100 /\ gear > 1 THEN gear - 1
    ELSE gear

\* mutant: the sector is not held to the last one
Sector_NoMin(distanceM) ==
    LET sectorLength == (TRACK_LENGTH_M * 100) \div SECTORS
    IN  distanceM \div sectorLength

\* Math.min(SECTORS - 1, Math.floor(distanceM / sectorLength))
Sector(distanceM) ==
    LET sectorLength == (TRACK_LENGTH_M * 100) \div SECTORS
    IN  Min(SECTORS - 1, distanceM \div sectorLength)

\* The generator calls of one tick, in the order tick makes them: the values
\* drawn and the generator's state after them.  The brake draw is made only in a
\* braking event; the anomaly is tried only when no cooldown runs and its length
\* drawn only when it is armed.
Draws(rng0, anomalyCooldown) ==
    Bind(normal(rng0, 0, 400), LAMBDA throttleDrift :
    Bind(chance(throttleDrift.a, P_BRAKE), LAMBDA braking :
    Bind(IF braking.value THEN normal(braking.a, 2000, 1000)
         ELSE [a |-> braking.a, value |-> 0], LAMBDA brake :
    Bind(normal(brake.a, 0, 300), LAMBDA steer :
    Bind(normal(steer.a, 0, 40), LAMBDA cool :
    Bind(normal(cool.a, 0, 50), LAMBDA oil :
    Bind(IF anomalyCooldown > 0 THEN [a |-> oil.a, value |-> FALSE]
         ELSE chance(oil.a, P_ANOMALY), LAMBDA arming :
    Bind(IF arming.value THEN intRange(arming.a, 10, 25)
         ELSE [a |-> arming.a, value |-> 0], LAMBDA armed :
    Bind(normal(armed.a, 0, 2), LAMBDA volt :
    Bind(normal(volt.a, 0, 180), LAMBDA fl :
    Bind(normal(fl.a, 0, 180), LAMBDA fr :
    Bind(normal(fr.a, 0, 150), LAMBDA rl :
    Bind(normal(rl.a, 0, 150), LAMBDA rr :
        [throttleDrift |-> throttleDrift.value, braking |-> braking.value,
         brake |-> brake.value, steer |-> steer.value, cool |-> cool.value,
         oil |-> oil.value, arming |-> arming.value, armed |-> armed.value,
         volt |-> volt.value, fl |-> fl.value, fr |-> fr.value, rl |-> rl.value,
         rr |-> rr.value, a |-> rr.a])))))))))))))

\* mutant: a running cooldown is not counted down
AnomalyCooldown_NoDecrement(cooldown, arming, armed) ==
    IF cooldown > 0 THEN cooldown
    ELSE IF arming THEN armed ELSE cooldown

\* The anomaly counter after a tick: counted down while it runs, else set to the
\* length drawn when chance(rng, 0.001) armed an anomaly
AnomalyCooldown(cooldown, arming, armed) ==
    IF cooldown > 0 THEN cooldown - 1
    ELSE IF arming THEN armed ELSE cooldown

\* The body of Engine.tick up to the validation, given its draws d: the new
\* InternalState, the generator's state and the assembled sample
TickBody(st, d, now, maxRpm) ==
    LET dtMs == now - st.lastTs
        throttlePct == clamp(st.throttlePct + d.throttleDrift, 500, 10000)
        brakePct == IF d.braking THEN clamp(st.brakePct + d.brake, 0, 9000)
                    ELSE (st.brakePct * 85) \div 100
        steeringDeg == clamp(st.steeringDeg + d.steer, -4500, 4500)
        speedKph == SpeedStep(st.speedKph, throttlePct, brakePct, dtMs)
        gear == GearShift(st.gear, speedToRpm(speedKph, st.gear, maxRpm), maxRpm)
        rawRpm == speedToRpm(speedKph, gear, maxRpm)
        rpm == lerp(st.rpm, rawRpm, 25)
        \* loadFactor = throttlePct / 100
        targetCoolant == 7500 + (throttlePct * 55) \div 100
        targetOil == 8000 + (throttlePct * 60) \div 100
        coolant0 == approach(st.coolantC, targetCoolant, 5) + d.cool
        oilC == approach(st.oilC, targetOil, 4) + d.oil
        coolantC == IF st.anomalyCooldown > 0 THEN coolant0 + 90 ELSE coolant0
        anomalyCooldown == AnomalyCooldown(st.anomalyCooldown, d.arming, d.armed)
        \* loadFactor * 0.006 * (dtMs / 100) and (brakePct / 100) * 0.004 * (dtMs / 100)
        drain == PerTick((throttlePct * 6) \div 100, dtMs, 100)
        regen == PerTick((brakePct * 4) \div 100, dtMs, 100)
        stateOfCharge == clamp(st.stateOfCharge - drain + regen, 0, 100 * 100 * SOC_UNIT)
        batteryV == 1260 + ((stateOfCharge \div SOC_UNIT) * 80) \div 10000 + d.volt
        baseTire == 5000 + (speedKph * 35) \div 320 + (throttlePct * 15) \div 100
        tireTemps == [FL |-> approach(st.tireTemps.FL, baseTire + d.fl, 15),
                      FR |-> approach(st.tireTemps.FR, baseTire + d.fr, 15),
                      RL |-> approach(st.tireTemps.RL, baseTire - 200 + d.rl, 14),
                      RR |-> approach(st.tireTemps.RR, baseTire - 100 + d.rr, 14)]
        \* speedMps * (dtMs / 1000), in hundredths of a metre
        moved == st.distanceM + PerTick(speedKph, dtMs, 3600)
        wrapped == moved >= TRACK_LENGTH_M * 100
        distanceM == IF wrapped THEN moved - TRACK_LENGTH_M * 100 ELSE moved
        lap == IF wrapped THEN st.lap + 1 ELSE st.lap
        sector == Sector(distanceM)
    IN  [state |-> [st EXCEPT !.lastTs = now, !.throttlePct = throttlePct,
                              !.brakePct = brakePct, !.steeringDeg = steeringDeg,
                              !.speedKph = speedKph, !.gear = gear, !.rpm = rpm,
                              !.coolantC = coolantC, !.oilC = oilC,
                              !.anomalyCooldown = anomalyCooldown,
                              !.stateOfCharge = stateOfCharge, !.batteryV = batteryV,
                              !.tireTemps = tireTemps, !.distanceM = distanceM, !.lap = lap],
         rng |-> d.a,
         coolant0 |-> coolant0,
         sample |-> [timestamp |-> now, vehicleId |-> "vehicle-001",
                     speedKph |-> round2(speedKph), rpm |-> (rpm + 50) \div 100,
                     gear |-> gear, throttlePct |-> round2(throttlePct),
                     brakePct |-> round2(brakePct), steeringDeg |-> round2(steeringDeg),
                     coolantC |-> round2(coolantC), oilC |-> round2(oilC),
                     batteryV |-> round2(batteryV),
                     stateOfCharge |-> (stateOfCharge + SOC_UNIT \div 2) \div SOC_UNIT,
                     tireTemps |-> [FL |-> round1(tireTemps.FL), FR |-> round1(tireTemps.FR),
                                    RL |-> round1(tireTemps.RL), RR |-> round1(tireTemps.RR)],
                     latitude |-> 3777, longitude |-> -12241,
                     lap |-> lap, sector |-> sector]]

\* Engine.tick up to the validation
tick(st, rng0, now, maxRpm) ==
    Bind(Draws(rng0, st.anomalyCooldown), LAMBDA d : TickBody(st, d, now, maxRpm))

\* scheduleNextTick: the delay Math.round(range(rng, minTickMs, maxTickMs + 0.999))
\* of the timer it sets, drawn in thousandths of a millisecond; nothing when not running
scheduleNextTick(st, rng, opts) ==
    IF ~st.running THEN [state |-> st, rng |-> rng]
    ELSE Bind(range(rng, opts.minTickMs * 1000, (opts.maxTickMs - opts.minTickMs) * 1000 + 999),
              LAMBDA r : [state |-> [st EXCEPT !.timer = (r.value + 500) \div 1000],
                          rng |-> r.a])

----------------------------------------------------------------------------
(* The repository and one client walking query() pages by nextCursor *)

RepoTimes == {0, 500, 1500}

\* A valid sample, told apart from the others by its lap field
RepoSample(ts, n) == [BaseSample EXCEPT !.timestamp = ts, !.lap = n]

InvalidSample(ts) == [BaseSample EXCEPT !.timestamp = ts, !.throttlePct = 10100]

NoWalk == [active |-> FALSE, raw |-> [from |-> Absent, to |-> Absent, limit |-> Absent, cursor |-> NoCursor],
           got |-> << >>, next |-> NoCursor, pages |-> 0, dirty |-> FALSE, start |-> << >>]

\* no query made yet
NoRequest == [from |-> Absent, to |-> Absent, limit |-> Absent, cursor |-> NoCursor]

RepoInit ==
    /\ buffer = << >>
    /\ added = 0
    /\ lastAdd = [op |-> "none", sample |-> BaseSample, before |-> << >>, valid |-> FALSE,
                  request |-> NoRequest, response |-> << >>]
    /\ walk = NoWalk

AddDone(sample) ==
    /\ added < MaxAdds
    /\ added' = added + 1
    /\ buffer' = add(buffer, sample)
    /\ lastAdd' = [op |-> "add", sample |-> sample, before |-> buffer,
                   valid |-> TelemetrySampleSchema(sample),
                   request |-> NoRequest, response |-> << >>]
    /\ walk' = IF walk.active /\ add(buffer, sample) # buffer
               THEN [walk EXCEPT !.dirty = TRUE] ELSE walk
    /\ UNCHANGED <<alertVars, engineVars>>

AddValid == \E ts \in RepoTimes : AddDone(RepoSample(ts, added))

AddInvalid == \E ts \in RepoTimes : AddDone(InvalidSample(ts))

\* The first page of a walk: no cursor
WalkStart ==
    \E from \in {Absent, 500}, to \in {Absent, 1500}, limit \in {Absent, 1, 2} :
        /\ ~walk.active
        /\ LET raw == [from |-> from, to |-> to, limit |-> limit, cursor |-> NoCursor]
               res == query(buffer, raw)
           IN  walk' = [active |-> TRUE, raw |-> raw, got |-> res.samples,
                        next |-> res.nextCursor, pages |-> 1, dirty |-> FALSE,
                        start |-> buffer]
        /\ UNCHANGED <<buffer, added, lastAdd>>
    /\ UNCHANGED <<alertVars, engineVars>>

\* A following page: the same from/to/limit with the returned nextCursor
WalkNext ==
    /\ walk.active /\ walk.next # NoCursor /\ walk.pages < MaxPages
    /\ LET raw == [walk.raw EXCEPT !.cursor = walk.next]
           res == query(buffer, raw)
       IN  walk' = [walk EXCEPT !.got = walk.got \o res.samples,
                                !.next = res.nextCursor, !.pages = walk.pages + 1]
    /\ UNCHANGED <<buffer, added, lastAdd>>
    /\ UNCHANGED <<alertVars, engineVars>>

WalkEnd ==
    /\ walk.active
    /\ walk' = NoWalk
    /\ UNCHANGED <<buffer, added, lastAdd>>
    /\ UNCHANGED <<alertVars, engineVars>>

RepoNext == AddValid \/ AddInvalid \/ WalkStart \/ WalkNext \/ WalkEnd

\* The limit parameter of a request: "1", "500", "0", "501", "", "abc", "2x"
LimitStrings ==
    {<<49>>, <<53, 48, 48>>, <<48>>, <<53, 48, 49>>, << >>, <<97, 98, 99>>, <<50, 120>>}

\* The limit of a query() call made on the repository by other code
LimitNumbers == {1, 500, 0, 501, NaN}

\* GET /api/history?limit=..
HistoryGet ==
    \E limit \in LimitStrings \cup {NoParam} :
        LET params == [from |-> NoParam, to |-> NoParam, limit |-> limit, cursor |-> NoCursor]
        IN  /\ lastAdd' = [lastAdd EXCEPT !.op = "GET", !.request = params,
                                          !.response = GET(buffer, params)]
            /\ UNCHANGED <<buffer, added, walk>>
            /\ UNCHANGED <<alertVars, engineVars>>

\* The cursor of a query() call: none, the nextCursor of a first page of one, and
\* the base64 strings of "-1", "abc" and "2x"
Cursors ==
    {NoCursor, EncodeCursor(1), Base64Encode(<<45, 49>>), Base64Encode(<<97, 98, 99>>),
     Base64Encode(<<50, 120>>)}

\* InMemoryTelemetryRepo.query(raw) called directly, with any of the limits and
\* no cursor or with any of the cursors and a limit of 1 or none
RepoQuery ==
    \E from \in {Absent, 500}, to \in {Absent, 1500}, limit \in LimitNumbers \cup {Absent},
       cursor \in Cursors :
        LET raw == [from |-> from, to |-> to, limit |-> limit, cursor |-> cursor]
        IN  /\ cursor = NoCursor \/ limit \in {Absent, 1}
            /\ lastAdd' = [lastAdd EXCEPT !.op = "query", !.request = raw,
                                          !.response = query(buffer, raw)]
            /\ UNCHANGED <<buffer, added, walk>>
            /\ UNCHANGED <<alertVars, engineVars>>

HistoryNext == AddValid \/ HistoryGet \/ RepoQuery

\* add() of a valid sample statement by statement, lastAdd.op telling how far the
\* call in progress has got: the push, the hard cap, evictOld
AddPush ==
    \E ts \in RepoTimes :
        /\ added < MaxAdds /\ lastAdd.op \in {"none", "add"}
        /\ added' = added + 1
        /\ buffer' = Append(buffer, RepoSample(ts, added))
        /\ lastAdd' = [op |-> "pushed", sample |-> RepoSample(ts, added), before |-> buffer,
                       valid |-> TRUE, request |-> NoRequest, response |-> << >>]
        /\ UNCHANGED walk
        /\ UNCHANGED <<alertVars, engineVars>>

AddCap ==
    /\ lastAdd.op = "pushed"
    /\ buffer' = CapTruncate(buffer)
    /\ lastAdd' = [lastAdd EXCEPT !.op = "capped"]
    /\ UNCHANGED <<added, walk>>
    /\ UNCHANGED <<alertVars, engineVars>>

AddEvict ==
    /\ lastAdd.op = "capped"
    /\ buffer' = evictOld(buffer, lastAdd.sample.timestamp)
    /\ lastAdd' = [lastAdd EXCEPT !.op = "add"]
    /\ UNCHANGED <<added, walk>>
    /\ UNCHANGED <<alertVars, engineVars>>

\* mutant: a reader runs between the statements of add(), as it would were add()
\* to await between them
ReaderMayRun_Preempting(op) == TRUE

\* A reader's callback runs when no call of add() is in progress: add() is a
\* synchronous method, called synchronously by the engine's listener
ReaderMayRun(op) == op \in {"none", "add"}

\* A reader calls size() and query({}) and keeps what it saw
Read ==
    /\ ReaderMayRun(lastAdd.op)
    /\ lastAdd' = [lastAdd EXCEPT !.response = [size |-> size(buffer),
                                                samples |-> query(buffer, NoRequest).samples]]
    /\ UNCHANGED <<buffer, added, walk>>
    /\ UNCHANGED <<alertVars, engineVars>>

AtomicNext == AddPush \/ AddCap \/ AddEvict \/ Read

----------------------------------------------------------------------------
(* The telemetry store feeding a stream of samples to the alert engine *)

DurationRules == {"high-rpm", "brake-throttle-overlap"}

LevelRules == {"coolant-temp", "tire-delta", "battery-soc"}

Streams == RuleIds \cup {"mixed", "levels"}

\* A quiet sample: no rule's condition holds and every level is past its clear boundary
QuietSample ==
    [BaseSample EXCEPT !.rpm = 3000, !.throttlePct = 2100, !.brakePct = 0,
                       !.tireTemps = [FL |-> 5000, FR |-> 5000, RL |-> 5000, RR |-> 5000]]

\* The values the stream's samples take in the fields its rule reads
StreamValues(s) ==
    CASE s = "high-rpm" -> {[QuietSample EXCEPT !.rpm = v] : v \in {6650, 6651}}
      [] s = "coolant-temp" ->
            {[QuietSample EXCEPT !.coolantC = v] :
                v \in {10400, 10500, 10900, 11000, 11100, 11900, 12100}}
      [] s = "tire-delta" ->
            {[QuietSample EXCEPT !.tireTemps.FL = 5000 + v] :
                v \in {1100, 1200, 1400, 1600, 1900, 2100}}
      [] s = "battery-soc" ->
            {[QuietSample EXCEPT !.stateOfCharge = v] :
                v \in {700, 900, 1100, 1400, 1600, 1700, 1800}}
      [] s = "brake-throttle-overlap" ->
            {[QuietSample EXCEPT !.brakePct = v] : v \in {2000, 2100}}
      [] s = "mixed" ->
            {[QuietSample EXCEPT !.rpm = r, !.coolantC = c] :
                r \in {3000, 7000}, c \in {10400, 12100}}
      [] s = "levels" ->
            {[QuietSample EXCEPT !.coolantC = c, !.tireTemps.FL = 5000 + (c - 10400),
                                 !.stateOfCharge = soc] :
                c \in {10400, 12100}, soc \in {700, 1800}}

\* The timestamps of the stream's samples: a run may start at 0 or at 1000
StreamTimes(s) ==
    CASE s = "high-rpm" -> {t0 + d : t0 \in {0, 1000}, d \in {0, 4999, 5000, 7999, 8000}}
      [] s = "brake-throttle-overlap" ->
            {t0 + d : t0 \in {0, 1000}, d \in {0, 2999, 3000, 4999, 5000}}
      [] s = "mixed" -> {0, 5000, 8000, 13000}
      [] OTHER -> {1000 * k : k \in 1..(MaxEvals + 1)}

\* Sample timestamps do not go back; in a level rule's stream they advance
NextTimes(s, last) ==
    IF s \in LevelRules \cup {"levels"}
    THEN {t \in StreamTimes(s) : t = last + 1000}
    ELSE {t \in StreamTimes(s) : t >= last}

\* Date.now() when the store evaluates a sample, as a lag behind the sample's timestamp
WallLag == {5, 40}

AlertInit(streams) ==
    /\ alertState = initialAlertEngineState
    /\ lastCritical = << >>
    /\ upserts = EmptyMap
    /\ prior = [before |-> initialAlertEngineState, after |-> initialAlertEngineState,
                notified |-> [r \in RuleIds |-> 0]]
    /\ lastSample = QuietSample
    /\ held = [r \in DurationRules |-> Absent]
    /\ evals = 0
    /\ stream \in streams

RuleCondition(r, sample) ==
    IF r = "high-rpm" THEN HighRpmCondition(sample) ELSE OverlapCondition(sample)

\* pushSample (live mode, valid sample): the alert state is replaced by the result
Evaluate ==
    \E base \in StreamValues(stream), ts \in NextTimes(stream, lastSample.timestamp),
       lag \in WallLag :
        LET sample == [base EXCEPT !.timestamp = ts]
            res == evaluateAlerts(sample, alertState, ts + lag)
        IN  /\ evals < MaxEvals
            /\ evals' = evals + 1
            /\ alertState' = [active |-> res.active, history |-> res.history,
                              runtimes |-> res.runtimes]
            /\ lastCritical' = res.newlyCritical
            /\ upserts' = res.upserts
            /\ prior' = [before |-> alertState, after |-> res.prevAfter,
                         notified |->
                             [r \in RuleIds |->
                                 IF r \notin DOMAIN res.active THEN 0
                                 ELSE (IF r \in DOMAIN alertState.active
                                       THEN prior.notified[r] ELSE 0)
                                      + (IF \E i \in 1..Len(res.newlyCritical) :
                                                res.newlyCritical[i].ruleId = r
                                         THEN 1 ELSE 0)]]
            /\ lastSample' = sample
            /\ held' = [r \in DurationRules |->
                            IF ~RuleCondition(r, sample) THEN Absent
                            ELSE IF held[r] = Absent THEN ts ELSE held[r]]
            /\ UNCHANGED stream
            /\ UNCHANGED <<repoVars, engineVars>>

AlertNext == Evaluate

----------------------------------------------------------------------------
(* Engine instances, each in a process of its own: run 1, and run 2 for the  *)
(* comparison of two runs.  The clock of a run is Date.now() in its process. *)

Runs == {1, 2}

Seeds == {42, 14, 1394}

T0 == 100000000      \* Date.now() when the engines are constructed

\* How much later than its delay a timer fires, by the clock: on time or a little
\* late (TimerLateness); on time, after the process was suspended for ten minutes,
\* or with the clock set back by an hour meanwhile (AnyLateness)
TimerLateness == {0, 40}
AnyLateness == {0, 600000, -3600000}

\* SimulationOptions, a field left out being Absent
NoOptions == [minTickMs |-> Absent, maxTickMs |-> Absent, maxRpm |-> Absent, seed |-> Absent]

\* v ?? d
OrDefault(v, d) == IF v = Absent THEN d ELSE v

\* new Engine(options) when the clock reads now: the options with their defaults,
\* the generator mulberry32(opts.seed) and the initial state; no timer, no listener
\* called yet.  The fields ticks, starts, assembled, coolant0, out, dropped, thrown
\* and last record what the engine has done: timer callbacks run, start() calls
\* that started it, the sample its last tick assembled, the coolant temperature that
\* tick had computed before its anomaly branch, samples emitted, samples dropped by
\* the validation, errors raised out of emit, last call.
Engine(options, now) ==
    LET opts == [minTickMs |-> OrDefault(options.minTickMs, MIN_TICK_MS),
                 maxTickMs |-> OrDefault(options.maxTickMs, MAX_TICK_MS),
                 maxRpm |-> OrDefault(options.maxRpm, DEFAULT_MAX_RPM),
                 seed |-> OrDefault(options.seed, DEFAULT_SEED)]
    IN  [opts |-> opts, state |-> createInitialState(now), rng |-> Word(opts.seed),
         now |-> now, pending |-> {}, handles |-> 0, ticks |-> 0, starts |-> 0,
         seed |-> Absent, assembled |-> BaseSample, coolant0 |-> 0, out |-> << >>, dropped |-> 0,
         thrown |-> 0, last |-> "new"]

\* getSimulationEngine(opts) in each process: run 1 with the options given, run 2
\* with none
EngineInit(optionSets) ==
    \E options \in optionSets :
        engines = [r \in Runs |-> Engine(IF r = 1 THEN options ELSE NoOptions, T0)]

\* scheduleNextTick on engine record e0: the timer is a handle, pending until it
\* fires or is cleared, due when the clock reads due, set with the delay drawn
Schedule(e0) ==
    Bind(e0, LAMBDA e :
        IF ~e.state.running THEN e
        ELSE Bind(scheduleNextTick(e.state, e.rng, e.opts), LAMBDA sch :
                [e EXCEPT !.state = [sch.state EXCEPT !.timer = e.handles + 1],
                          !.rng = sch.rng,
                          !.handles = e.handles + 1,
                          !.pending = e.pending \cup {[handle |-> e.handles + 1,
                                                       due |-> e.now + sch.state.timer,
                                                       delay |-> sch.state.timer]}]))

\* mutant: start() without the check of running
start_NoGuard(e, seed) ==
    Schedule([e EXCEPT !.rng = IF seed # Absent THEN Word(seed) ELSE e.rng,
                       !.state = [createInitialState(e.now) EXCEPT !.running = TRUE],
                       !.seed = seed, !.starts = e.starts + 1, !.last = "start"])

\* start(seed?)
start(e, seed) ==
    IF e.state.running THEN [e EXCEPT !.last = "start"]
    ELSE Schedule([e EXCEPT !.rng = IF seed # Absent THEN Word(seed) ELSE e.rng,
                            !.state = [createInitialState(e.now) EXCEPT !.running = TRUE],
                            !.seed = seed, !.starts = e.starts + 1, !.last = "start"])

\* stop(): clearTimeout of the timer in state.timer, no other
stop(e) ==
    [e EXCEPT !.pending = {t \in e.pending : t.handle # e.state.timer},
              !.state = [e.state EXCEPT !.running = FALSE],
              !.last = "stop"]

\* What a listener of 'sample' does when emit calls it
Listeners == {"none", "stop", "restart", "start", "throw"}

\* the calls a listener makes on the engine before it returns
listen(e, listener, seed) ==
    CASE listener = "stop" -> stop(e)
      [] listener = "restart" -> start(stop(e), seed)
      [] listener = "start" -> start(e, seed)
      [] OTHER -> e

\* mutant: the sample is emitted whether or not it passes the validation
fire_EmitInvalid(e, t, lateness, listener, seed) ==
    Bind(tick(e.state, e.rng, t.due + lateness, e.opts.maxRpm), LAMBDA res :
        Schedule([e EXCEPT !.now = t.due + lateness, !.pending = e.pending \ {t},
                           !.state = res.state, !.rng = res.rng,
                           !.ticks = e.ticks + 1, !.last = "tick",
                           !.assembled = res.sample, !.coolant0 = res.coolant0,
                           !.out = Append(e.out, res.sample)]))

\* the timer callback: tick(), the validation, the emit (its listener running
\* inside it; an error it raises leaves tick() there) and scheduleNextTick
fire(e, t, lateness, listener, seed) ==
    Bind(tick(e.state, e.rng, t.due + lateness, e.opts.maxRpm), LAMBDA res :
        LET ok == TelemetrySampleSchema(res.sample)
            e1 == [e EXCEPT !.now = t.due + lateness, !.pending = e.pending \ {t},
                            !.state = res.state, !.rng = res.rng,
                            !.ticks = e.ticks + 1, !.last = "tick",
                            !.assembled = res.sample, !.coolant0 = res.coolant0,
                            !.out = IF ok THEN Append(e.out, res.sample) ELSE e.out,
                            !.dropped = IF ok THEN e.dropped ELSE e.dropped + 1]
        IN  IF ok /\ listener = "throw" THEN [e1 EXCEPT !.thrown = e.thrown + 1]
            ELSE IF ok THEN Schedule(listen(e1, listener, seed))
            ELSE Schedule(e1))

Start(r, seed) ==
    /\ ~engines[r].state.running
    /\ engines[r].starts < MaxStarts
    /\ engines' = [engines EXCEPT ![r] = start(engines[r], seed)]
    /\ UNCHANGED <<repoVars, alertVars, generators, appVars>>

\* start(seed?) on a running engine
StartRunning(r, seed) ==
    /\ engines[r].state.running
    /\ engines' = [engines EXCEPT ![r] = start(engines[r], seed)]
    /\ UNCHANGED <<repoVars, alertVars, generators, appVars>>

Stop(r) ==
    /\ engines[r].state.running
    /\ engines' = [engines EXCEPT ![r] = stop(engines[r])]
    /\ UNCHANGED <<repoVars, alertVars, generators, appVars>>

\* The pending timer that is due first fires; a listener restarts the engine at
\* most MaxRestarts times
Tick(r, lateness, listener, seed) ==
    \E t \in engines[r].pending :
        /\ \A u \in engines[r].pending : t.due <= u.due
        /\ engines[r].ticks < MaxTicks
        /\ listener = "restart" => engines[r].starts < MaxStarts + MaxRestarts
        /\ engines' = [engines EXCEPT ![r] = fire(engines[r], t, lateness, listener, seed)]
        /\ UNCHANGED <<repoVars, alertVars, generators, appVars>>

\* One engine, any seed, any timing
EngineStart == \E seed \in Seeds \cup {Absent} : Start(1, seed)
EngineStop == Stop(1)
EngineTick == \E lateness \in AnyLateness : Tick(1, lateness, "none", Absent)

EngineNext == EngineStart \/ EngineStop \/ EngineTick

\* One engine whose listener calls back into it, its timers on time
ListenerSeed == 42
LifeStart == \E seed \in {ListenerSeed, Absent} : Start(1, seed)
LifeStartRunning == \E seed \in {ListenerSeed, Absent} : StartRunning(1, seed)
LifeStop == Stop(1)
LifeTick == \E listener \in Listeners : Tick(1, 0, listener, ListenerSeed)

LifeNext == LifeStart \/ LifeStartRunning \/ LifeStop \/ LifeTick

\* One engine constructed with any of these options and started with any of these
\* seeds, its timers on time
OptionSets ==
    {NoOptions,
     [NoOptions EXCEPT !.minTickMs = 10, !.maxTickMs = 20],
     [NoOptions EXCEPT !.minTickMs = 0, !.maxTickMs = 0],
     [NoOptions EXCEPT !.minTickMs = -5],
     [NoOptions EXCEPT !.maxTickMs = 0],
     [NoOptions EXCEPT !.maxRpm = 0],
     [NoOptions EXCEPT !.maxRpm = -100],
     [NoOptions EXCEPT !.seed = 43]}

ConfigSeeds == 0..59

ConfigStart == \E seed \in ConfigSeeds \cup {Absent} : Start(1, seed)
ConfigTick == Tick(1, 0, "none", Absent)

ConfigNext == ConfigStart \/ ConfigTick

\* Two runs started with the same seed, their timers firing at independent instants
BothStart ==
    \E seed \in Seeds :
        /\ \A r \in Runs : ~engines[r].state.running /\ engines[r].starts = 0
        /\ engines' = [r \in Runs |-> start(engines[r], seed)]
        /\ UNCHANGED <<repoVars, alertVars, generators, appVars>>

RunTick == \E r \in Runs, lateness \in TimerLateness : Tick(r, lateness, "none", Absent)

TwoRunsNext == BothStart \/ RunTick

\* The state after construction: an empty repository, the store's initial alert
\* state and the engines constructed but not started
----------------------------------------------------------------------------
(* Streaming routes.  Each route is taken alone with the engine singleton: of *)
(* the engine it sees whether it is running and how many times its broadcast  *)
(* function is registered as a 'sample' listener.  A client is the number its *)
(* connection got from connectionsTotal.                                      *)

MaxConnections == 3     \* connections made to one route in one behaviour

RouteNames == {"stream-ws", "stream", "stream-sse"}

\* module state of a route file when it is loaded; the engine not started.  cancelled
\* holds the clients whose stream was cancelled: a send to one of them fails; fresh
\* holds the connections whose lastPong is at most 45 s old; intervals holds the
\* clients of stream-sse whose own heartbeat interval is set
RoutesInit ==
    routes = [n \in RouteNames |->
                 [clients |-> {}, connectionsTotal |-> 0, simulationStarted |-> FALSE,
                  heartbeat |-> FALSE, running |-> FALSE, listeners |-> 0,
                  cancelled |-> {}, fresh |-> {}, intervals |-> {}, last |-> "load"]]

\* stream-ws: startSimulation()
startSimulation(s) ==
    [s EXCEPT !.listeners = s.listeners + 1, !.running = TRUE, !.simulationStarted = TRUE]

\* stream-ws: stopSimulation(); off() removes one registration if there is one
stopSimulation(s) ==
    [s EXCEPT !.listeners = IF s.listeners > 0 THEN s.listeners - 1 ELSE 0,
              !.running = FALSE, !.simulationStarted = FALSE, !.heartbeat = FALSE]

\* mutant: the last client's removal does not stop the simulation
cleanup_NoStop(s, id) == [s EXCEPT !.clients = s.clients \ {id}]

\* stream-ws: cleanup(meta)
cleanup(s, id) ==
    LET s1 == [s EXCEPT !.clients = s.clients \ {id}]
    IN  IF s1.clients = {} THEN stopSimulation(s1) ELSE s1

\* cleanup of each client of a list, in the list's order
RECURSIVE CleanupAll(_, _)
CleanupAll(s, ids) ==
    IF ids = {} THEN s
    ELSE LET id == CHOOSE i \in ids : \A j \in ids : i <= j
         IN  CleanupAll(cleanup(s, id), ids \ {id})

\* stream-ws: broadcast(sample), the send failing for the clients of failing
broadcast(s, failing) ==
    LET s1 == CleanupAll(s, failing \cap s.clients)
    IN  IF s1.clients = {} THEN stopSimulation(s1) ELSE s1

\* emit('sample'): the listeners registered when it starts are called in turn
RECURSIVE EmitWs(_, _, _)
EmitWs(s, n, failing) == IF n = 0 THEN s ELSE EmitWs(broadcast(s, failing), n - 1, failing)

\* stream-ws GET with a WebSocket upgrade: a client connects
WsConnect ==
    LET s == routes["stream-ws"]
        id == s.connectionsTotal + 1
        s1 == [s EXCEPT !.connectionsTotal = id, !.clients = s.clients \cup {id},
                        !.fresh = s.fresh \cup {id}]
        s2 == IF ~s1.simulationStarted THEN startSimulation(s1) ELSE s1
    IN  /\ s.connectionsTotal < MaxConnections
        /\ routes' = [routes EXCEPT !["stream-ws"] = [s2 EXCEPT !.heartbeat = TRUE,
                                                              !.last = "connect"]]
        /\ UNCHANGED <<repoVars, alertVars, engines, generators, store>>

\* the 'close' or 'error' event of a connection made before, removed or not
WsClose ==
    \E id \in 1..routes["stream-ws"].connectionsTotal :
        /\ routes' = [routes EXCEPT !["stream-ws"] = [cleanup(@, id) EXCEPT !.last = "close"]]
        /\ UNCHANGED <<repoVars, alertVars, engines, generators, store>>

\* a tick of the running engine emits a sample; sends fail for some clients
WsTick ==
    \E failing \in SUBSET routes["stream-ws"].clients :
        LET s == routes["stream-ws"]
        IN  /\ s.running
            /\ routes' = [routes EXCEPT !["stream-ws"] =
                              [EmitWs(s, s.listeners, failing) EXCEPT !.last = "tick"]]
            /\ UNCHANGED <<repoVars, alertVars, engines, generators, store>>

\* the 'message' event of a connection with a valid pong: lastPong = Date.now()
WsPong ==
    \E id \in 1..routes["stream-ws"].connectionsTotal :
        /\ routes' = [routes EXCEPT !["stream-ws"].fresh = @ \cup {id},
                                    !["stream-ws"].last = "pong"]
        /\ UNCHANGED <<repoVars, alertVars, engines, generators, store>>

\* more than 45 s pass without a pong from some connections
WsSilence ==
    \E quiet \in SUBSET routes["stream-ws"].fresh :
        /\ quiet # {}
        /\ routes' = [routes EXCEPT !["stream-ws"].fresh = @ \ quiet,
                                    !["stream-ws"].last = "silence"]
        /\ UNCHANGED <<repoVars, alertVars, engines, generators, store>>

\* the heartbeat interval fires: the clients timed out are closed and dropped, the
\* others pinged
WsHeartbeat ==
    LET s == routes["stream-ws"]
        s1 == CleanupAll(s, s.clients \ s.fresh)
        s2 == IF s1.clients = {} THEN stopSimulation(s1) ELSE s1
    IN  /\ s.heartbeat
        /\ routes' = [routes EXCEPT !["stream-ws"] = [s2 EXCEPT !.last = "heartbeat"]]
        /\ UNCHANGED <<repoVars, alertVars, engines, generators, store>>

WsNext == WsConnect \/ WsClose \/ WsTick \/ WsPong \/ WsSilence \/ WsHeartbeat

SseRoutes == {"stream", "stream-sse"}

\* stream, stream-sse GET: the stream's start(controller)
SseConnect ==
    \E n \in SseRoutes :
        LET s == routes[n]
            id == s.connectionsTotal + 1
            connections == s.clients \cup {id}
            first == ~s.simulationStarted /\ Cardinality(connections) = 1
        IN  /\ s.connectionsTotal < MaxConnections
            /\ routes' = [routes EXCEPT ![n] =
                  [s EXCEPT !.connectionsTotal = id, !.clients = connections,
                            \* startTelemetryBroadcast: on, start (nothing if running)
                            !.listeners = IF first THEN s.listeners + 1 ELSE s.listeners,
                            !.running = first \/ s.running,
                            !.simulationStarted = first \/ s.simulationStarted,
                            !.intervals = IF n = "stream-sse" THEN s.intervals \cup {id}
                                          ELSE s.intervals,
                            !.last = "connect"]]
            /\ UNCHANGED <<repoVars, alertVars, engines, generators, store>>

\* the stream's cancel(): the client went away.  In stream, cancel() looks for the
\* controller equal to this, which is the underlying source object and no
\* controller: it deletes nothing.  In stream-sse it deletes currentController and
\* clears its interval.  Either stops the engine if the set is then empty.
SseCancel ==
    \E n \in SseRoutes :
        \E id \in (1..routes[n].connectionsTotal) \ routes[n].cancelled :
            LET s == routes[n]
                connections == IF n = "stream" THEN s.clients ELSE s.clients \ {id}
                empty == connections = {}
            IN  /\ routes' = [routes EXCEPT ![n] =
                      [s EXCEPT !.clients = connections,
                                !.cancelled = s.cancelled \cup {id},
                                !.intervals = IF n = "stream-sse" THEN s.intervals \ {id}
                                              ELSE s.intervals,
                                \* stopTelemetryBroadcast: stop, off
                                !.running = IF empty THEN FALSE ELSE s.running,
                                !.listeners = IF empty /\ s.listeners > 0
                                              THEN s.listeners - 1 ELSE s.listeners,
                                !.simulationStarted = IF empty THEN FALSE
                                                      ELSE s.simulationStarted,
                                !.last = "cancel"]]
                /\ UNCHANGED <<repoVars, alertVars, engines, generators, store>>

\* broadcastSample / broadcastSSESample: the controllers whose enqueue throws
\* (those of cancelled streams, and those of failing) are deleted, in stream-sse
\* with their intervals
broadcastSample(s, n, failing) ==
    LET dead == (failing \cup s.cancelled) \cap s.clients
    IN  [s EXCEPT !.clients = s.clients \ dead,
                  !.intervals = IF n = "stream-sse" THEN s.intervals \ dead ELSE s.intervals]

\* a tick of the running engine emits a sample to the route's listener; a second
\* call of the listener in the same emit would find the failing controllers gone
SseTick ==
    \E n \in SseRoutes :
        \E failing \in SUBSET routes[n].clients :
            LET s == routes[n]
            IN  /\ s.running /\ s.listeners > 0
                /\ routes' = [routes EXCEPT ![n] =
                                  [broadcastSample(s, n, failing) EXCEPT !.last = "tick"]]
                /\ UNCHANGED <<repoVars, alertVars, engines, generators, store>>

\* stream-sse: a client's heartbeat interval fires; if the send fails the interval
\* is cleared and the controller deleted
SseHeartbeat ==
    \E id \in routes["stream-sse"].intervals, fails \in BOOLEAN :
        LET s == routes["stream-sse"]
            dead == fails \/ id \in s.cancelled
        IN  /\ routes' = [routes EXCEPT !["stream-sse"] =
                  [s EXCEPT !.clients = IF dead THEN s.clients \ {id} ELSE s.clients,
                            !.intervals = IF dead THEN s.intervals \ {id} ELSE s.intervals,
                            !.last = "heartbeat"]]
            /\ UNCHANGED <<repoVars, alertVars, engines, generators, store>>

SseNext == SseConnect \/ SseCancel \/ SseTick \/ SseHeartbeat

----------------------------------------------------------------------------
(* The telemetry store (useTelemetryStore).  latest undefined is NoSample,     *)
(* latencyMs and lastUpdated null are Absent.  The fields ops, last and raw    *)
(* record the operations made: their number, the last one and its argument.    *)

NoSample == << >>

StoreInit ==
    store = [samples |-> << >>, capacity |-> DEFAULT_CAPACITY, latest |-> NoSample,
             total |-> 0, valid |-> 0, dropped |-> 0, parseErrors |-> 0,
             latencyMs |-> Absent, lastUpdated |-> Absent,
             alerts |-> initialAlertEngineState, lastCriticalAlertIds |-> << >>,
             mode |-> "live", replayIndex |-> 0, replaySamples |-> << >>,
             ops |-> 0, last |-> "create", raw |-> NoSample]

\* mutant: a full buffer takes the sample without dropping one
pushSample_NoDrop(st, raw, now) ==
    IF st.mode = "replay" THEN st
    ELSE IF ~TelemetrySampleSchema(raw)
    THEN [st EXCEPT !.total = st.total + 1, !.parseErrors = st.parseErrors + 1]
    ELSE [st EXCEPT !.samples = Append(st.samples, raw), !.latest = raw,
                    !.total = st.total + 1, !.valid = st.valid + 1]

\* mutant: a push is taken in replay mode too
pushSample_NoReplayGuard(st, raw, now) ==
    IF ~TelemetrySampleSchema(raw)
    THEN [st EXCEPT !.total = st.total + 1, !.parseErrors = st.parseErrors + 1]
    ELSE [st EXCEPT !.samples = Append(st.samples, raw), !.latest = raw,
                    !.total = st.total + 1, !.valid = st.valid + 1]

\* pushSample(raw) when Date.now() reads now
pushSample(st, raw, now) ==
    IF st.mode = "replay" THEN st
    ELSE IF ~TelemetrySampleSchema(raw)
    THEN [st EXCEPT !.total = st.total + 1, !.parseErrors = st.parseErrors + 1]
    ELSE LET full == Len(st.samples) >= st.capacity
             res == evaluateAlerts(raw, st.alerts, now)
         IN  [st EXCEPT !.samples = IF full
                                    THEN Append(SubSeq(st.samples, 2, Len(st.samples)), raw)
                                    ELSE Append(st.samples, raw),
                        !.latest = raw,
                        !.total = st.total + 1,
                        !.valid = st.valid + 1,
                        !.dropped = IF full THEN st.dropped + 1 ELSE st.dropped,
                        !.latencyMs = now - raw.timestamp,
                        !.lastUpdated = raw.timestamp,
                        !.alerts = [active |-> res.active, history |-> res.history,
                                    runtimes |-> res.runtimes],
                        !.lastCriticalAlertIds =
                            [i \in 1..Len(res.newlyCritical) |-> res.newlyCritical[i].id]]

\* the payloads pushed at the time ts: two valid samples and one that fails the schema
StorePayloads(ts) ==
    {[QuietSample EXCEPT !.timestamp = ts],
     [QuietSample EXCEPT !.timestamp = ts, !.coolantC = 12100],
     InvalidSample(ts)}

\* the sample lists a replay is entered with: none, one sample, more than the capacity
ReplaySets ==
    {<< >>,
     <<[QuietSample EXCEPT !.timestamp = 100]>>,
     [i \in 1..(DEFAULT_CAPACITY + 1) |-> [QuietSample EXCEPT !.timestamp = 100 * i]]}

\* the operation made is recorded
Recorded(st, op, raw) == [st EXCEPT !.ops = store.ops + 1, !.last = op, !.raw = raw]

PushSample ==
    \E raw \in StorePayloads(1000 * (store.ops + 1)) :
        /\ store.ops < MaxStoreOps
        /\ store' = Recorded(pushSample(store, raw, raw.timestamp + 5), "pushSample", raw)
        /\ UNCHANGED <<repoVars, alertVars, engines, generators, routes>>

EnterReplay ==
    \E replaySamples \in ReplaySets :
        /\ store.ops < MaxStoreOps
        /\ store' = Recorded([store EXCEPT !.mode = "replay",
                                           !.replaySamples = replaySamples,
                                           !.replayIndex = 0,
                                           !.latest = IF replaySamples = << >> THEN NoSample
                                                      ELSE replaySamples[1],
                                           !.samples = replaySamples],
                             "enterReplay", NoSample)
        /\ UNCHANGED <<repoVars, alertVars, engines, generators, routes>>

ReplaySeek ==
    \E index \in {0 - 1, 0, 1, 5} :
        LET clamped == Max(0, Min(index, Len(store.replaySamples) - 1))
        IN  /\ store.ops < MaxStoreOps
            /\ store' = Recorded(IF store.mode # "replay" THEN store
                                 ELSE [store EXCEPT !.replayIndex = clamped,
                                          !.latest = IF clamped + 1 > Len(store.replaySamples)
                                                     THEN NoSample
                                                     ELSE store.replaySamples[clamped + 1],
                                          !.samples = SubSeq(store.replaySamples, 1,
                                                             Min(clamped + 1,
                                                                 Len(store.replaySamples)))],
                                 "replaySeek", NoSample)
            /\ UNCHANGED <<repoVars, alertVars, engines, generators, routes>>

ExitReplay ==
    /\ store.ops < MaxStoreOps
    /\ store' = Recorded([store EXCEPT !.mode = "live", !.replaySamples = << >>,
                                       !.replayIndex = 0, !.samples = << >>],
                         "exitReplay", NoSample)
    /\ UNCHANGED <<repoVars, alertVars, engines, generators, routes>>

Reset ==
    /\ store.ops < MaxStoreOps
    /\ store' = Recorded([store EXCEPT !.samples = << >>, !.latest = NoSample,
                                       !.total = 0, !.valid = 0, !.dropped = 0,
                                       !.parseErrors = 0, !.latencyMs = Absent,
                                       !.lastUpdated = Absent],
                         "reset", NoSample)
    /\ UNCHANGED <<repoVars, alertVars, engines, generators, routes>>

StoreNext == PushSample \/ EnterReplay \/ ReplaySeek \/ ExitReplay \/ Reset

\* Generators made on their own: none yet
RngInit == generators = << >>

Init == RepoInit /\ AlertInit({"mixed"}) /\ EngineInit({NoOptions}) /\ RngInit /\ RoutesInit /\ StoreInit

\* The same, for each stream of samples the alert engine may be fed
InitStreams == RepoInit /\ AlertInit(Streams) /\ EngineInit({NoOptions}) /\ RngInit /\ RoutesInit /\ StoreInit

\* The same, for each set of options the engine may be constructed with
InitOptions == RepoInit /\ AlertInit({"mixed"}) /\ EngineInit(OptionSets) /\ RngInit /\ RoutesInit /\ StoreInit

SpecRepo == Init /\ [][RepoNext]_vars

SpecAlert == InitStreams /\ [][AlertNext]_vars

SpecEngine == Init /\ [][EngineNext]_vars

SpecTwoRuns == Init /\ [][TwoRunsNext]_vars

SpecLife == Init /\ [][LifeNext]_vars

SpecConfig == InitOptions /\ [][ConfigNext]_vars

SpecHistory == Init /\ [][HistoryNext]_vars

SpecAtomic == Init /\ [][AtomicNext]_vars

\* Generators used on their own: two are made, each from a seed, and called in any order
Generators == {1, 2}

RngSeeds == {0, 1, 42, 0 - 1, 2147483647, 0 - 2147483647}

\* const rng = mulberry32(seed): the generator's state is seed >>> 0
Create ==
    \E g \in Generators \ DOMAIN generators, seed \in RngSeeds :
        /\ generators' = (g :> [seed |-> seed, a |-> Word(seed), out |-> << >>]) @@ generators
        /\ UNCHANGED <<repoVars, alertVars, engines, appVars>>

\* rng(): one call of a generator, which returns a value and keeps its new state
Draw ==
    \E g \in DOMAIN generators :
        /\ Len(generators[g].out) < MaxDraws
        /\ generators' =
             Bind(mulberry32(generators[g].a), LAMBDA r :
                 [generators EXCEPT ![g].a = r.a, ![g].out = Append(@, r.value)])
        /\ UNCHANGED <<repoVars, alertVars, engines, appVars>>

RngNext == Create \/ Draw

SpecRng == Init /\ [][RngNext]_vars

SpecWs == Init /\ [][WsNext]_vars

SpecSse == Init /\ [][SseNext]_vars

SpecStore == Init /\ [][StoreNext]_vars

----------------------------------------------------------------------------
(* Properties of the repository *)

IsSuffix(s, t) == Len(s) <= Len(t) /\ s = SubSeq(t, Len(t) - Len(s) + 1, Len(t))

IsPrefix(s, t) == Len(s) <= Len(t) /\ s = SubSeq(t, 1, Len(s))

WalkFiltered == FilterSeq(buffer, walk.raw.from, walk.raw.to)

\* C3: on a store not modified during the walk, the pages obtained by following
\* nextCursor with the same from/to/limit are, concatenated, a prefix of the
\* filtered set in store order (no duplicate, no gap), and nextCursor is omitted
\* exactly when the whole filtered set has been returned.
C3_PaginationComplete ==
    (walk.active /\ ~walk.dirty) =>
        /\ IsPrefix(walk.got, WalkFiltered)
        /\ (walk.next = NoCursor) <=> (Len(walk.got) = Len(WalkFiltered))

C3_Witness ==
    /\ walk.active /\ ~walk.dirty /\ walk.pages = 3 /\ walk.raw.limit = 1
    /\ walk.next = NoCursor /\ Len(walk.got) = 3 /\ walk.got = WalkFiltered

QueryAll == query(buffer, [from |-> Absent, to |-> Absent, limit |-> Absent, cursor |-> NoCursor])

\* C4: after an add() of a valid sample, query({}) returns no sample older than
\* that sample's timestamp minus retentionMs.
C4_NoSampleOlderThanRetention ==
    (lastAdd.op = "add" /\ lastAdd.valid) =>
        \A i \in 1..Len(QueryAll.samples) :
            QueryAll.samples[i].timestamp >= lastAdd.sample.timestamp - RetentionMs

\* C5: size() never exceeds the hard cap, and an add() of a valid sample leaves
\* a suffix of the old buffer followed by the sample: what is dropped is the oldest.
C5_SizeWithinCap ==
    /\ size(buffer) <= HARD_CAP
    /\ (lastAdd.op = "add" /\ lastAdd.valid) =>
            IsSuffix(buffer, Append(lastAdd.before, lastAdd.sample))

C5_Witness ==
    /\ lastAdd.op = "add" /\ lastAdd.valid
    /\ Len(lastAdd.before) = HARD_CAP
    /\ size(buffer) = HARD_CAP
    /\ buffer = Append(Tail(lastAdd.before), lastAdd.sample)

----------------------------------------------------------------------------
(* Properties of the alert engine *)

Evaluated == evals' = evals + 1     \* this step is an evaluateAlerts call

\* C2: evaluate leaves priorState unchanged: the alerts of its active map, its
\* history and the entries of its runtimes read after the call as before it.
C2_PriorStateUnchanged == prior.after = prior.before

LevelValue(r, sample) ==
    CASE r = "coolant-temp" -> sample.coolantC
      [] r = "tire-delta" -> TireDelta(sample)
      [] r = "battery-soc" -> sample.stateOfCharge

\* The values within one unit of a trigger threshold of the rule, on either side
NearTrigger(r) ==
    CASE r = "coolant-temp" -> {{10900, 11000, 11100}, {11900, 12100}}
      [] r = "tire-delta" -> {{1400, 1600}, {1900, 2100}}
      [] r = "battery-soc" -> {{1400, 1600}, {700, 900}}

HistoryOf(history, r) == SelectSeq(history, LAMBDA a : a.ruleId = r)

\* C6: for every level rule, when its alert is active and the value moves from
\* one value near a trigger threshold to another value near that threshold (just
\* beyond it or just inside it), the same alert stays active, with the same
\* firstSeen, and no history entry is added for the rule (the rule's entries
\* after the call are the newest of its entries before: the cap may drop old ones).
C6_NoFlapping ==
    [][Evaluated =>
        \A r \in LevelRules :
            (/\ r \in DOMAIN alertState.active
             /\ \E band \in NearTrigger(r) :
                    /\ LevelValue(r, lastSample) \in band
                    /\ LevelValue(r, lastSample') \in band)
            => /\ r \in DOMAIN alertState'.active
               /\ alertState'.active[r].active
               /\ alertState'.active[r].firstSeen = alertState.active[r].firstSeen
               /\ IsSuffix(HistoryOf(alertState'.history, r), HistoryOf(alertState.history, r))]_vars

\* the coolant alert raised three samples ago is still the active one after the
\* value went under, over and under the warning threshold again
C6_Witness ==
    /\ stream = "coolant-temp" /\ evals = 4
    /\ lastSample.coolantC = 10900
    /\ "coolant-temp" \in DOMAIN alertState.active
    /\ alertState.active["coolant-temp"].firstSeen = lastSample.timestamp - 3000
    /\ alertState.active["coolant-temp"].lastSeen = lastSample.timestamp - 1000
    /\ alertState.history = << >>

WarnMs(r) == IF r = "high-rpm" THEN 5000 ELSE 3000
CritMs(r) == IF r = "high-rpm" THEN 8000 ELSE 5000

\* C7: for each duration rule, when the condition has held on every sample since
\* the one at t0 = held[r] >= 0, the sample at t yields no alert if t - t0 <= warnMs - 1,
\* a warning alert if warnMs <= t - t0 < critMs and a critical alert if t - t0 >= critMs.
C7_DurationBoundaries ==
    \A r \in DurationRules :
        (held[r] # Absent /\ held[r] >= 0) =>
            LET d == lastSample.timestamp - held[r]
            IN  /\ d <= WarnMs(r) - 1 => r \notin DOMAIN alertState.active
                /\ (d >= WarnMs(r) /\ d < CritMs(r)) =>
                        /\ r \in DOMAIN alertState.active
                        /\ alertState.active[r].severity = "warning"
                /\ d >= CritMs(r) =>
                        /\ r \in DOMAIN alertState.active
                        /\ alertState.active[r].severity = "critical"

\* C8: in a call whose sample makes a duration rule's condition false, the rule's
\* alert leaves the active set and its timer is reset; in a call whose sample makes
\* it true after a sample that made it false (or as the first sample), the timer
\* starts at this sample's timestamp.
C8_ClearAndRestart ==
    [][Evaluated =>
        \A r \in DurationRules :
            /\ ~RuleCondition(r, lastSample') =>
                    /\ r \notin DOMAIN alertState'.active
                    /\ alertState'.runtimes[r].conditionActiveSince = Absent
            /\ (RuleCondition(r, lastSample') /\ (evals = 0 \/ ~RuleCondition(r, lastSample))) =>
                    alertState'.runtimes[r].conditionActiveSince = lastSample'.timestamp]_vars

\* a high-rpm alert was cleared, and the condition holds again from this sample on
C8_Witness ==
    /\ stream = "high-rpm"
    /\ HistoryOf(alertState.history, "high-rpm") # << >>
    /\ RuleCondition("high-rpm", lastSample)
    /\ "high-rpm" \notin DOMAIN alertState.active
    /\ alertState.runtimes["high-rpm"].conditionActiveSince = lastSample.timestamp
    /\ lastSample.timestamp > 0

CriticalIds == {lastCritical[i].id : i \in 1..Len(lastCritical)}

\* C9: a rule's alert is in newlyCritical exactly when the rule passed critical to
\* upsertActive in this call and the alert was created by it or had another
\* severity before; so a rule that was critical before the call and is critical
\* again is not in newlyCritical.
C9_NewlyCritical ==
    [][Evaluated =>
        \A r \in RuleIds :
            (\E i \in 1..Len(lastCritical') : lastCritical'[i].id = r)
            <=> /\ r \in DOMAIN upserts'
                /\ upserts'[r].severity = "critical"
                /\ \/ r \notin DOMAIN alertState.active
                   \/ alertState.active[r].severity # "critical"]_vars

\* the coolant alert became critical two samples ago and was critical again on the
\* latest sample, which reported nothing as newly critical
C9_Witness ==
    /\ stream = "coolant-temp"
    /\ "coolant-temp" \in DOMAIN upserts
    /\ upserts["coolant-temp"].severity = "critical"
    /\ ~upserts["coolant-temp"].changed
    /\ alertState.active["coolant-temp"].firstSeen < lastSample.timestamp
    /\ lastCritical = << >>

----------------------------------------------------------------------------
(* Properties of the simulation engine *)

\* The fields of a sample the determinism contract names
Contract(sample) ==
    [throttlePct |-> sample.throttlePct, speedKph |-> sample.speedKph, rpm |-> sample.rpm,
     gear |-> sample.gear, coolantC |-> sample.coolantC, oilC |-> sample.oilC,
     stateOfCharge |-> sample.stateOfCharge, tireTemps |-> sample.tireTemps]

Emitted(r) == [i \in 1..Len(engines[r].out) |-> Contract(engines[r].out[i])]

\* C1: two independent runs started with the same seed have emitted, after the
\* same number of ticks, identical sequences of throttlePct, speedKph, rpm, gear,
\* coolantC, oilC, stateOfCharge and tire temperatures, whatever the instants at
\* which their timers fired.
C1_SameSeedSameSequence ==
    (/\ engines[1].seed # Absent
     /\ engines[1].seed = engines[2].seed
     /\ engines[1].ticks = engines[2].ticks)
        => Emitted(1) = Emitted(2)

\* C10: every sample an engine has emitted satisfies 0 <= speedKph <= 320,
\* 0 <= throttlePct <= 100, 0 <= brakePct <= 100, 0 <= stateOfCharge <= 100,
\* gear in [0,6], rpm >= 0, lap >= 0 and sector in [0,2].
C10_EmittedSampleBounds ==
    \A r \in Runs : \A i \in 1..Len(engines[r].out) :
        LET s == engines[r].out[i]
        IN  /\ 0 <= s.speedKph /\ s.speedKph <= 32000
            /\ 0 <= s.throttlePct /\ s.throttlePct <= 10000
            /\ 0 <= s.brakePct /\ s.brakePct <= 10000
            /\ 0 <= s.stateOfCharge /\ s.stateOfCharge <= 10000
            /\ s.gear \in 0..6
            /\ s.rpm >= 0
            /\ s.lap >= 0
            /\ s.sector \in 0..2

\* A tick after a long suspension has emitted a sample at the top speed, in the
\* last sector, past the first gear, and a later tick's sample was rejected
C10_Witness ==
    /\ engines[1].dropped > 0
    /\ \E i \in 1..Len(engines[1].out) :
          LET s == engines[1].out[i]
          IN  s.speedKph = 32000 /\ s.sector = SECTORS - 1 /\ s.gear > 1

----------------------------------------------------------------------------
(* Engine lifecycle *)

\* the step is a timer callback of the engine of run 1
Ticked == engines'[1].ticks = engines[1].ticks + 1

\* the step emits a sample
EmitsSample == Len(engines'[1].out) > Len(engines[1].out)

\* C11: once stop() has returned the engine is not running, and no sample is
\* emitted while it is not running, that is, from a stop() to the next start();
\* a tick in which a listener calls stop() emits its sample before that call.
C11_NoSampleAfterStop ==
    [][/\ engines'[1].last = "stop" => ~engines'[1].state.running
       /\ EmitsSample => engines[1].state.running]_vars

\* C12: start(seed?) called from outside on a running engine changes nothing of
\* it: not its vehicle state, not its generator, not its timers, nor what it has
\* emitted (the record of the last call apart).
C12_StartWhileRunningNoOp ==
    [][(engines[1].state.running /\ engines'[1].last = "start" /\ ~Ticked)
         => engines'[1] = [engines[1] EXCEPT !.last = "start"]]_vars

\* start() was called on an engine that had been started once and had ticked
C12_Witness ==
    /\ engines[1].last = "start" /\ engines[1].state.running
    /\ engines[1].starts = 1 /\ engines[1].ticks >= 1
    /\ engines[1].state.lastTs > T0 /\ Cardinality(engines[1].pending) = 1

\* C13: a tick that leaves the engine running leaves its next tick scheduled (the
\* timer in state.timer is pending), whether its sample passed the validation or
\* not and whether or not its listener raised an error.
C13_TickReschedules ==
    [][(Ticked /\ engines'[1].state.running)
         => \E t \in engines'[1].pending : t.handle = engines'[1].state.timer]_vars

\* C14: a tick emits its sample once when the sample passes the validation and
\* emits nothing when it fails; after a failed validation the engine is still
\* running, holds the state that tick computed and has its next tick scheduled.
C14_EmitOncePerValidTick ==
    [][Ticked =>
         LET e == engines[1]
             e2 == engines'[1]
         IN  IF TelemetrySampleSchema(e2.assembled)
             THEN e2.out = Append(e.out, e2.assembled) /\ e2.dropped = e.dropped
             ELSE /\ e2.out = e.out /\ e2.dropped = e.dropped + 1
                  /\ e2.state.running = e.state.running
                  /\ e2.state.lastTs = e2.now /\ e2.assembled.timestamp = e2.now
                  /\ e2.state.speedKph = e2.assembled.speedKph
                  /\ e2.state.gear = e2.assembled.gear
                  /\ e2.state.coolantC = e2.assembled.coolantC
                  /\ e2.state.lap = e2.assembled.lap
                  /\ e2.state.running
                       => \E t \in e2.pending : t.handle = e2.state.timer]_vars

\* a tick has run on a running engine that has emitted a sample and dropped one
C14_Witness ==
    /\ engines[1].last = "tick" /\ engines[1].state.running
    /\ engines[1].dropped >= 1 /\ Len(engines[1].out) >= 1
    /\ engines[1].ticks = engines[1].dropped + Len(engines[1].out)
    /\ engines[1].state.lastTs = engines[1].now
    /\ ~TelemetrySampleSchema(engines[1].assembled)

\* C15: no engine runs with minTickMs <= 0, maxTickMs <= 0 or vehicle.maxRpm <= 0:
\* its construction has failed.
C15_InvalidConfigRejected ==
    engines[1].state.running
      => /\ engines[1].opts.minTickMs > 0
         /\ engines[1].opts.maxTickMs > 0
         /\ engines[1].opts.maxRpm > 0

\* C16: every delay of a timer the engine has set lies in minTickMs..maxTickMs,
\* for an engine whose options are positive with minTickMs <= maxTickMs.
C16_DelayWithinBounds ==
    (0 < engines[1].opts.minTickMs /\ engines[1].opts.minTickMs <= engines[1].opts.maxTickMs)
      => \A t \in engines[1].pending :
             engines[1].opts.minTickMs <= t.delay /\ t.delay <= engines[1].opts.maxTickMs

----------------------------------------------------------------------------
(* Repository: order, eviction, pages and rejected queries *)

\* samples in non-decreasing timestamp order, equal timestamps in the order of
\* their add() calls (RepoSample numbers the calls in lap)
InTimeOrder(samples) ==
    \A i, j \in 1..Len(samples) :
        i < j => \/ samples[i].timestamp < samples[j].timestamp
                 \/ /\ samples[i].timestamp = samples[j].timestamp
                    /\ samples[i].lap < samples[j].lap

\* C17: whatever the order in which valid samples were added, a query lists its
\* samples in non-decreasing timestamp order, equal timestamps in insertion order.
C17_QueryInTimestampOrder ==
    \A from \in {Absent, 500}, to \in {Absent, 1500} :
        InTimeOrder(query(buffer, [from |-> from, to |-> to, limit |-> Absent,
                                   cursor |-> NoCursor]).samples)

\* C18: an add() of a valid sample s drops by time exactly the samples whose
\* timestamp is less than s.timestamp - retentionMs: what is retained is what the
\* hard cap leaves of the old buffer and s, less those samples, so a sample at
\* the cutoff stays and so does s.  With retentionMs = 1000, after samples at 0
\* and 500 the sample at 1500 leaves two samples, those at 500 and 1500.
C18_EvictsExactlyOlder ==
    (lastAdd.op = "add" /\ lastAdd.valid) =>
        /\ buffer = SelectSeq(CapTruncate(Append(lastAdd.before, lastAdd.sample)),
                              LAMBDA x : x.timestamp >= lastAdd.sample.timestamp - RetentionMs)
        /\ Len(buffer) >= 1 /\ buffer[Len(buffer)] = lastAdd.sample
        /\ ([i \in 1..Len(lastAdd.before) |-> lastAdd.before[i].timestamp] = <<0, 500>>
              /\ lastAdd.sample.timestamp = 1500)
             => size(buffer) = 2 /\ buffer[1].timestamp = 500

\* a walk with limit 1 over three matching samples, the buffer unchanged meanwhile
WalkOneByOne ==
    /\ walk.active /\ ~walk.dirty /\ walk.raw.limit = 1
    /\ Len(WalkFiltered) = 3

\* the call that follows the walk's last nextCursor
FollowingCall == query(buffer, [walk.raw EXCEPT !.cursor = walk.next])

\* C19 as stated: with limit 1 over three matching samples the first three calls
\* return one sample each, and the call following the third one's nextCursor
\* returns an empty page and no nextCursor.
C19_FourthCallEmpty ==
    (WalkOneByOne /\ walk.pages = 3) =>
        /\ walk.got = WalkFiltered
        /\ FollowingCall.samples = << >>
        /\ FollowingCall.nextCursor = NoCursor

\* C19 as amended: the first three calls return one sample each, in order; the
\* first two return a nextCursor and the third returns none, so that no call
\* follows it; a call with the cursor of position 3 returns an empty page and no
\* nextCursor.
C19_ThreePagesThenEnd ==
    WalkOneByOne =>
        /\ walk.pages <= 3
        /\ walk.got = SubSeq(WalkFiltered, 1, walk.pages)
        /\ (walk.next = NoCursor) <=> (walk.pages = 3)
        /\ LET past == query(buffer, [walk.raw EXCEPT !.cursor = EncodeCursor(3)])
           IN  past.samples = << >> /\ past.nextCursor = NoCursor

C19_Witness == WalkOneByOne /\ walk.pages = 3 /\ Len(walk.got) = 3

\* the limit of the last request is a number outside LIMIT_MIN..LIMIT_MAX or is
\* not a number
BadLimit ==
    LET n == IF lastAdd.op = "GET" THEN ToNumber(lastAdd.request.limit)
             ELSE lastAdd.request.limit
    IN  /\ IF lastAdd.op = "GET" THEN lastAdd.request.limit # NoParam ELSE n # Absent
        /\ n = NaN \/ n < LIMIT_MIN \/ n > LIMIT_MAX

\* the caller got a validation error: status 400 and a body with an error from
\* GET, a result with an error from query()
IsValidationError ==
    IF lastAdd.op = "GET"
    THEN lastAdd.response.status = 400 /\ "error" \in DOMAIN lastAdd.response.body
    ELSE "error" \in DOMAIN lastAdd.response

\* C20: a query whose limit is outside [1,500] or is not a number gets a
\* validation error, which is no result with samples (not the result of the
\* query under another limit, nor an empty result).
C20_InvalidLimitIsError ==
    (lastAdd.op \in {"GET", "query"} /\ BadLimit) => IsValidationError

\* text is the decimal numeral of a non-negative integer
IsOffsetText(text) == Len(text) >= 1 /\ \A i \in 1..Len(text) : text[i] >= 48 /\ text[i] <= 57

\* C21: a query() whose cursor does not decode to a non-negative integer returns
\* what the same query returns without cursor.
C21_MalformedCursorIsOffsetZero ==
    (lastAdd.op = "query" /\ lastAdd.request.cursor # NoCursor
       /\ ~IsOffsetText(Base64Decode(lastAdd.request.cursor)))
      => lastAdd.response = query(buffer, [lastAdd.request EXCEPT !.cursor = NoCursor])

\* C22: an add() of a sample that fails the validation leaves the buffer as it
\* was: nothing appended, nothing evicted.
C22_InvalidAddIgnored ==
    (lastAdd.op = "add" /\ ~lastAdd.valid) => buffer = lastAdd.before /\ size(buffer) = Len(lastAdd.before)

\* an invalid sample was added to a buffer holding a sample older than the
\* retention window that sample's timestamp would open
C22_Witness ==
    /\ lastAdd.op = "add" /\ ~lastAdd.valid /\ ~TelemetrySampleSchema(lastAdd.sample)
    /\ Len(buffer) >= 2
    /\ buffer[1].timestamp < lastAdd.sample.timestamp - RetentionMs

\* the last call was query() with a limit that is omitted or in LIMIT_MIN..LIMIT_MAX
\* and a cursor that is omitted or the numeral of an offset
WellFormedQuery ==
    /\ lastAdd.op = "query"
    /\ lastAdd.request.limit = Absent
         \/ (lastAdd.request.limit >= LIMIT_MIN /\ lastAdd.request.limit <= LIMIT_MAX)
    /\ lastAdd.request.cursor = NoCursor \/ IsOffsetText(Base64Decode(lastAdd.request.cursor))

C24_AddAtomicForReaders ==
    (lastAdd.op # "none" /\ lastAdd.response # << >>) =>
        /\ lastAdd.response.size <= HARD_CAP
        /\ lastAdd.response.samples = add(lastAdd.before, lastAdd.sample)

\* a reader has read after an add() to a full buffer, and the buffer passes
\* through a state over the cap during such an add()
C24_Witness ==
    /\ lastAdd.op = "add" /\ lastAdd.response # << >>
    /\ Len(lastAdd.before) = HARD_CAP
    /\ Len(Append(lastAdd.before, lastAdd.sample)) > HARD_CAP
    /\ lastAdd.response.size = Len(buffer)

----------------------------------------------------------------------------
(* Alert engine: replay, history, creation and refresh of alerts *)

\* C25: the result of the latest evaluateAlerts call (active, history, runtimes,
\* newlyCritical) is the result of a call with the same sample and prior state
\* made at any other reading of the wall clock.
C25_Replayable ==
    evals > 0 =>
        \A lag \in WallLag :
            LET res == evaluateAlerts(lastSample, prior.before, lastSample.timestamp + lag)
            IN  /\ res.active = alertState.active
                /\ res.history = alertState.history
                /\ res.runtimes = alertState.runtimes
                /\ res.newlyCritical = lastCritical

\* the rules whose alert is active in before and not in after
ClearedRules(before, after) == DOMAIN before.active \ DOMAIN after.active

\* history after is history before followed by one inactive copy of each alert
\* cleared (lastSeen apart), less the oldest entries beyond the cap
HistoryMoved(before, after) ==
    LET cleared == ClearedRules(before, after)
        kept == Min(Len(before.history) + Cardinality(cleared), HISTORY_CAP)
        new == Min(Cardinality(cleared), kept)
        old == kept - new
    IN  /\ Len(after.history) = kept
        /\ SubSeq(after.history, 1, old)
             = SubSeq(before.history, Len(before.history) - old + 1, Len(before.history))
        /\ \A i \in old + 1..kept :
             /\ after.history[i].ruleId \in cleared
             /\ [after.history[i] EXCEPT !.lastSeen = 0]
                  = [before.active[after.history[i].ruleId] EXCEPT !.active = FALSE, !.lastSeen = 0]
        /\ \A i, j \in old + 1..kept : i # j => after.history[i].ruleId # after.history[j].ruleId
        /\ Cardinality(cleared) <= HISTORY_CAP => new = Cardinality(cleared)

\* C26: an alert that leaves the active set in an evaluateAlerts call is appended
\* to the end of history as a copy with active = false; history never holds more
\* than the cap, and the entries dropped for it are the oldest.
C26_ClearedIntoCappedHistory ==
    [][Evaluated =>
         /\ HistoryMoved(alertState, alertState')
         /\ Len(alertState'.history) <= HISTORY_CAP
         /\ \A r \in DOMAIN alertState'.active : alertState'.active[r].active]_vars

\* the latest call cleared an alert with history already at the cap, so that the
\* oldest entry was dropped
C26_Witness ==
    /\ evals > 0
    /\ ClearedRules(prior.before, alertState) # {}
    /\ Len(prior.before.history) = HISTORY_CAP
    /\ Len(alertState.history) = HISTORY_CAP
    /\ alertState.history[1] = prior.before.history[2]

\* C27: an alert that enters the active set in an evaluateAlerts call has
\* id = ruleId = its rule, firstSeen = lastSeen = the sample's timestamp and
\* active = true; an alert that stays in the active set keeps its firstSeen.
C27_CreatedThenFirstSeenFixed ==
    [][Evaluated =>
         /\ \A r \in DOMAIN alertState'.active \ DOMAIN alertState.active :
              LET a == alertState'.active[r]
              IN  /\ a.id = r /\ a.ruleId = r
                  /\ a.firstSeen = lastSample'.timestamp
                  /\ a.lastSeen = lastSample'.timestamp
                  /\ a.active
         /\ \A r \in DOMAIN alertState'.active \cap DOMAIN alertState.active :
              alertState'.active[r].firstSeen = alertState.active[r].firstSeen]_vars

\* an alert created by an earlier call is still active after the latest call,
\* which refreshed it at a later timestamp
C27_Witness ==
    /\ evals > 1
    /\ \E r \in DOMAIN alertState.active \cap DOMAIN prior.before.active :
         /\ alertState.active[r].firstSeen < lastSample.timestamp
         /\ alertState.active[r].lastSeen = lastSample.timestamp

\* C28: after an evaluateAlerts call every alert of the active set has
\* lastSeen = the sample's timestamp, also an alert whose condition no longer
\* holds and that hysteresis keeps unresolved.
C28_ActiveRefreshedEverySample ==
    evals > 0 =>
        \A r \in DOMAIN alertState.active :
            alertState.active[r].lastSeen = lastSample.timestamp

----------------------------------------------------------------------------
(* Seeded generator *)

\* the word returned by the k-th call of a generator whose state was a before
\* its first call
RECURSIVE NthValue(_, _)
NthValue(a, k) ==
    Bind(mulberry32(a), LAMBDA r : IF k = 1 THEN r.value ELSE NthValue(r.a, k - 1))

\* a value v / 2^32 lies in [0,1): the word v lies in 0..2^32 - 1
InUnitInterval(v) == v[1] \in 0..(W16 - 1) /\ v[2] \in 0..(W16 - 1)

\* C29: the k-th value a generator returns depends on (seed mod 2^32, k) only,
\* whatever other generators were made and called in between; two generators
\* made from the same seed return the same sequence; every value lies in [0,1).
C29_SeedAndIndexDecideValue ==
    /\ \A g \in DOMAIN generators :
         \A k \in 1..Len(generators[g].out) :
             /\ generators[g].out[k] = NthValue(Word(generators[g].seed), k)
             /\ InUnitInterval(generators[g].out[k])
    /\ \A g, h \in DOMAIN generators :
         generators[g].seed = generators[h].seed =>
             \A k \in 1..Min(Len(generators[g].out), Len(generators[h].out)) :
                 generators[g].out[k] = generators[h].out[k]

\* two generators made from the same negative seed, each called more than once
C29_Witness ==
    /\ DOMAIN generators = Generators
    /\ generators[1].seed = generators[2].seed
    /\ generators[1].seed < 0
    /\ Len(generators[1].out) > 1 /\ Len(generators[2].out) > 1

----------------------------------------------------------------------------
(* Simulation engine: timers *)

\* C30: an Engine instance never has more than one tick timer pending, in any
\* interleaving of start(), stop() and ticks, also when a sample listener calls
\* stop() and then start() during a tick.
C30_AtMostOneTimerPending ==
    \A r \in DOMAIN engines : Cardinality(engines[r].pending) <= 1

----------------------------------------------------------------------------
(* Pagination while the store is written *)

Elements(s) == {s[i] : i \in 1..Len(s)}

\* the samples in the walk's range that were in the store at the first page and
\* are in it still
StayedInRange == Elements(FilterSeq(walk.start, walk.raw.from, walk.raw.to)) \cap Elements(buffer)

\* C31: when add() calls come between the pages of a walk, a walk that has come to
\* its end (no nextCursor) has returned no sample twice and has returned every
\* sample that was in the store and in range from its first page on.
C31_WalkUnderAddsNoDupNoSkip ==
    (walk.active /\ walk.next = NoCursor) =>
        /\ \A i, j \in 1..Len(walk.got) : i # j => walk.got[i] # walk.got[j]
        /\ StayedInRange \subseteq Elements(walk.got)

----------------------------------------------------------------------------
(* Alert engine: clearing, one-shot notification, bounded state *)

\* the sample's value lies beyond the rule's clear boundary
BeyondClearBoundary(r, sample) ==
    CASE r = "coolant-temp" -> sample.coolantC < 10500
      [] r = "tire-delta" -> LevelValue(r, sample) < 1200
      [] r = "battery-soc" -> sample.stateOfCharge > 1700

\* C32: a level rule's active alert leaves the active set in an evaluateAlerts call
\* only if the sample's value lies beyond the rule's clear boundary (coolantC < 105,
\* tire delta < 12, stateOfCharge > 17), whatever severity the alert had reached.
C32_ClearedOnlyBeyondBoundary ==
    [][Evaluated =>
         \A r \in LevelRules :
             (r \in DOMAIN alertState.active /\ r \notin DOMAIN alertState'.active)
                 => BeyondClearBoundary(r, lastSample')]_vars

\* C33: within one active period of an alert, from its creation until it is
\* cleared, its rule is in newlyCritical in at most one evaluateAlerts call.
C33_NotifiedOncePerActivePeriod ==
    \A r \in RuleIds : prior.notified[r] <= 1

\* C34: after any sequence of evaluateAlerts calls from the initial state, active
\* holds at most one alert per rule, each under its rule's id and with
\* active = true; every alert of history has active = false; runtimes holds at
\* most one entry per rule; so the state's size does not grow with the stream.
C34_StateBounded ==
    /\ DOMAIN alertState.active \subseteq RuleIds
    /\ \A r \in DOMAIN alertState.active :
         /\ alertState.active[r].id = r /\ alertState.active[r].ruleId = r
         /\ alertState.active[r].active
    /\ \A i \in 1..Len(alertState.history) : ~alertState.history[i].active
    /\ Len(alertState.history) <= HISTORY_CAP
    /\ DOMAIN alertState.runtimes \subseteq RuleIds

\* several alerts active at once, and a full history, after the last call allowed
C34_Witness ==
    /\ evals = MaxEvals
    /\ Cardinality(DOMAIN alertState.active) >= 2
    /\ Len(alertState.history) = HISTORY_CAP
    /\ Cardinality(DOMAIN alertState.runtimes) >= 3

----------------------------------------------------------------------------
(* Simulation engine: gear and anomaly cooldown *)

\* C35: in each tick the gear stays within 1..6 and changes by at most one: up by
\* one iff the rpm of the tick's new speed at the old gear is above 0.94 x maxRpm
\* and the gear is below 6, otherwise down by one iff that rpm is below 1600 and
\* the gear is above 1, otherwise not at all; the tick's rpm target is that of the
\* new speed at the new gear.
C35_GearShiftsOneStep ==
    [][Ticked =>
         LET e == engines[1]
             e2 == engines'[1]
             maxRpm == e.opts.maxRpm
             implied == speedToRpm(e2.state.speedKph, e.state.gear, maxRpm)
             up == implied > (maxRpm * 94) /\ e.state.gear < 6
             down == ~up /\ implied < 160000 /\ e.state.gear > 1
         IN  /\ e2.state.gear \in 1..6
             /\ e2.state.gear - e.state.gear \in {0 - 1, 0, 1}
             /\ (e2.state.gear = e.state.gear + 1) <=> up
             /\ (e2.state.gear = e.state.gear - 1) <=> down
             /\ e2.state.rpm
                  = lerp(e.state.rpm, speedToRpm(e2.state.speedKph, e2.state.gear, maxRpm), 25)]_vars

\* the engine shifted up in one tick and down again in a later one
C35_Witness ==
    /\ engines[1].ticks >= 2
    /\ engines[1].state.gear = 1
    /\ \E i \in 1..Len(engines[1].out) : engines[1].out[i].gear = 2

\* C36: the anomaly counter lies within 0..25; a tick that finds it positive adds
\* the coolant bump (0.9), counts it down by exactly one and arms nothing; a
\* cooldown, of 10 to 25 ticks, is armed only by a tick that finds it at 0.
C36_AnomalyCooldownNoOverlap ==
    /\ [][Ticked =>
            LET c == engines[1].state.anomalyCooldown
                e2 == engines'[1]
                c2 == e2.state.anomalyCooldown
            IN  /\ c > 0 => (c2 = c - 1 /\ e2.state.coolantC = e2.coolant0 + 90)
                /\ c = 0 => (c2 = 0 \/ c2 \in 10..25)
                /\ c2 > c => c = 0]_vars
    /\ [](engines[1].state.anomalyCooldown \in 0..25)

\* an anomaly was armed and the latest tick, finding it running, counted it down
C36_Witness ==
    /\ engines[1].ticks >= 2
    /\ engines[1].state.anomalyCooldown \in 9..24
    /\ engines[1].state.coolantC = engines[1].coolant0 + 90

----------------------------------------------------------------------------
(* Streaming routes *)

\* C37: in the WebSocket route taken alone, after every handler: there are
\* clients iff simulationStarted is true, the engine runs and broadcast is
\* registered exactly once; with no client left the engine is stopped, broadcast
\* is not registered and the heartbeat interval is cleared.
C37_WsClientsIffSimulation ==
    LET s == routes["stream-ws"]
    IN  /\ (s.clients # {}) <=> (s.simulationStarted /\ s.running /\ s.listeners = 1)
        /\ s.clients = {} => (~s.running /\ ~s.simulationStarted /\ ~s.heartbeat
                              /\ s.listeners = 0)
        /\ s.clients # {} => s.heartbeat

\* the simulation was stopped with the last client and started again by the next
C37_Witness ==
    LET s == routes["stream-ws"]
    IN  /\ s.connectionsTotal = 3 /\ s.clients = {3}
        /\ s.running /\ s.listeners = 1 /\ s.last = "tick"

\* the clients of a route that are connected: in its set and not gone away
Connected(s) == s.clients \ s.cancelled

\* C38: in the SSE routes the engine runs while a client is connected and, when
\* no client is connected any more (after a cancel or after a removal on a failed
\* send), the engine is stopped and simulationStarted is false.
C38_SseStopsWhenEmpty ==
    \A n \in SseRoutes :
        LET s == routes[n]
        IN  /\ Connected(s) # {} => s.running
            /\ Connected(s) = {} => (~s.running /\ ~s.simulationStarted)

----------------------------------------------------------------------------
(* Telemetry store *)

\* the step is a pushSample call
Pushed == store'.ops = store.ops + 1 /\ store'.last = "pushSample"

\* C39: in live mode the store never holds more samples than its capacity; a
\* valid sample pushed onto a full buffer drops the oldest sample, and only it,
\* and adds one to dropped; total = valid + parseErrors in every state.
C39_RingBufferAndCounters ==
    /\ [](store.mode = "live" => Len(store.samples) <= store.capacity)
    /\ [](store.total = store.valid + store.parseErrors)
    /\ [][(Pushed /\ store.mode = "live" /\ TelemetrySampleSchema(store'.raw)
              /\ Len(store.samples) = store.capacity)
          => /\ store'.samples = Append(Tail(store.samples), store'.raw)
             /\ store'.dropped = store.dropped + 1]_vars
    /\ [][(Pushed /\ store.mode = "live" /\ TelemetrySampleSchema(store'.raw)
              /\ Len(store.samples) < store.capacity)
          => /\ store'.samples = Append(store.samples, store'.raw)
             /\ store'.dropped = store.dropped]_vars

\* a valid sample was pushed onto a full buffer, after an invalid payload
C39_Witness ==
    /\ store.mode = "live" /\ store.last = "pushSample"
    /\ TelemetrySampleSchema(store.raw)
    /\ store.dropped > 0 /\ store.parseErrors > 0
    /\ Len(store.samples) = store.capacity

\* C40: in replay mode pushSample changes no field of the store: samples,
\* latest, the counters and the alert state stay as they are.
C40_ReplayIgnoresPushes ==
    [][(Pushed /\ store.mode = "replay")
          => store' = Recorded(store, "pushSample", store'.raw)]_vars

\* a valid sample was pushed in replay mode, the replay showing its samples
C40_Witness ==
    /\ store.mode = "replay" /\ store.last = "pushSample"
    /\ TelemetrySampleSchema(store.raw)
    /\ store.samples # << >> /\ store.samples = store.replaySamples
    /\ store.total > 0

====
